---- MODULE Spec2Model ----
(***************************************************************************)
(* The parallel DAG scheduler of iapetus (dagScheduler: run, handleReady,  *)
(* runTask) as a state machine: one driver goroutine running run(), one    *)
(* worker goroutine per dispatched task running runTask(), the state mutex *)
(* s.mu, the context s.ctx, the channels s.doneCh and s.eventCh.           *)
(***************************************************************************)
EXTENDS Integers, Sequences, FiniteSets, TLC

\* ------------------------------------------------------------------ bounds
\* Largest number of tasks of a workflow, in the runs checked for safety
\* and in the (costlier) runs checked for liveness.
MaxTasks == 4
MaxLiveTasks == 3
\* Largest number of distinct task names offered to a DAG, and the longest
\* Task.Depends list of a task offered to it.
MaxNodes == 3
MaxDepends == 2
\* Largest Task.Retries of a task that is run.
MaxRetries == 3
\* Largest number of assertions of a task.
MaxAsserts == 3
\* Largest number of steps of a workflow that is run from Workflow.Run.
MaxSteps == 2

\* ------------------------------------------------------------ the workflow
TaskNames == <<"a", "b", "c", "d", "e", "f">>

Pos(n) == CHOOSE i \in 1..Len(TaskNames) : TaskNames[i] = n

\* The steps of a workflow in the order newDagScheduler receives them.
OrderOf(n) == {TaskNames[i] : i \in 1..n}

\* Task.Depends of every task: the order is topological, so a task names
\* only tasks that precede it.
DependsChoices(ts) ==
    {d \in [ts -> SUBSET ts] : \A t \in ts : \A u \in d[t] : Pos(u) < Pos(t)}

\* What task.Run() does in the worker: return nil, return an error, panic.
Outcomes == {"ok", "err", "panic"}

Nil == [step |-> "", panic |-> FALSE]

\* run() has not returned yet.
Running == [running |-> TRUE]

\* &WorkflowError{StepName: task.Name, ..., Err: err}
WorkflowError(t, isPanic) == [step |-> t, panic |-> isPanic]

VARIABLES
    tasks,      \* keys of s.taskMap
    depends,    \* Task.Depends of each task
    depCount,   \* s.depCount
    started,    \* s.started
    completed,  \* s.completed
    errOnce,    \* s.errOnce
    ctxDone,    \* s.ctx is cancelled (s.ctx.Done() is closed)
    doneCh,     \* number of signals buffered in s.doneCh (capacity 1)
    cancelled,  \* s.cancelled
    eventCh,    \* s.eventCh, a FIFO of schedulerEvent
    mu,         \* holder of s.mu: "free", or the task whose worker holds it
    wg,         \* counter of s.wg
    dpc,        \* where the driver goroutine is in run()
    dev,        \* the name of the ready event handleReady was called with
    result,     \* what run() returned: Running, or [ret |-> error]
    wpc,        \* where each task's worker goroutine is in runTask()
    err,        \* err of each worker: "none" (no value yet), "ok" (nil), "err"
    hookLog,    \* per task, the hooks fired for it, in order, each with
                \* whether the calling goroutine held s.mu
    dispatches, \* per task, how many times go s.runTask was executed
    firstFailed,\* the first task whose worker recorded a failure under s.mu
    exitVia,    \* the case of the select through which run() returned
    lateComplete \* some on_complete hook fired after run() had returned

\* The DAG of tasks (dag.go) and its callers.
VARIABLES
    nodes,      \* d.nodes: name -> TaskNode (its Deps and Depends lists)
    edges,      \* d.edges: name -> the names appended as its dependents
    dmu,        \* writer of d.mu: "free", or the goroutine holding Lock()
    adders,     \* per goroutine calling AddTask: where it is, its task, the
                \* index of the next dependency, the error it returned
    ret         \* what the last call of a DAG method returned

\* One call of Task.Run (task.go).
VARIABLES
    tsk,        \* the Task t: the fields that Run reads and writes
    trun,       \* the call: where it is, attempt, lastErr, what it returned
    tlog        \* what the call did so far, in order: the call with the
                \* Retries it found, hooks, attempts, sleeps

\* One call of Workflow.Run (workflow.go).
VARIABLES
    wf,         \* the Workflow: Steps, and what PreRun and PostRun do
    wrun,       \* the call: where it is, the index in Steps, what it
                \* returned
    wlog        \* the workflow hooks invoked, in order, each with what the
                \* scheduler and its workers were doing at that time

\* One call of RunAssertions (assertions).
VARIABLES
    asserts,    \* task.Asserts, each as the error it returns ("nil": none)
    arun,       \* the call: the index in task.Asserts, errs, what it
                \* returned
    invoked     \* the indices of the assertions invoked, in order

\* The backend registry (backend.go).
VARIABLES
    backendRegistry, \* name -> Backend
    latest,     \* per name, the backend of the latest RegisterBackend call
    lastCall    \* the last call of RegisterBackend or GetBackend, with
                \* what it returned

\* The scheduler's own state.
runVars == <<tasks, depends, depCount, started, completed, errOnce, ctxDone,
             doneCh, cancelled, eventCh, mu, wg, dpc, dev, result, wpc, err,
             hookLog, dispatches, firstFailed, exitVia, lateComplete>>

dagVars == <<nodes, edges, dmu, adders, ret>>

taskVars == <<tsk, trun, tlog>>

wfVars == <<wf, wrun, wlog>>

assertVars == <<asserts, arun, invoked>>

regVars == <<backendRegistry, latest, lastCall>>

vars == <<tasks, depends, depCount, started, completed, errOnce, ctxDone,
          doneCh, cancelled, eventCh, mu, wg, dpc, dev, result, wpc, err,
          hookLog, dispatches, firstFailed, exitVia, lateComplete,
          nodes, edges, dmu, adders, ret, tsk, trun, tlog, wf, wrun, wlog,
          asserts, arun, invoked, backendRegistry, latest, lastCall>>

\* What no step of the scheduler writes: the workflow and its DAG, the
\* Workflow.Run that called it, and the parts of the library it does not
\* use.
schedVars == <<tasks, depends, dagVars, taskVars, wfVars, assertVars, regVars>>

\* What no method of the DAG writes.
notDagVars == <<runVars, taskVars, wfVars, assertVars, regVars>>

\* What Task.Run, RunAssertions and the registry do not write.
notTaskVars == <<runVars, dagVars, wfVars, assertVars, regVars>>

notAssertVars == <<runVars, dagVars, taskVars, wfVars, regVars>>

notRegVars == <<runVars, dagVars, taskVars, wfVars, assertVars>>

\* ----------------------------------------------------------------- helpers
\* s.dependents[name]: the tasks that list name in Depends.
Dependents(name) == {t \in tasks : name \in depends[t]}

\* Completion detected as soon as one task has completed.
AllCompleted_Any(comp) == Cardinality({t \in tasks : comp[t]}) >= 1

\* len(s.completed) == len(s.taskMap)
AllCompleted(comp) ==
    Cardinality({t \in tasks : comp[t]}) = Cardinality(tasks)

\* A queue with room for half as many events as there are tasks.
EventCap_Short == Cardinality(tasks) \div 2

\* cap(s.eventCh) = len(order)*2
EventCap == 2 * Cardinality(tasks)

ReadyEvent(n) == [eventType |-> "ready", name |-> n]
DoneEvent == [eventType |-> "done", name |-> ""]

\* All the orders in which the elements of a set can be enumerated (Go map
\* iteration order, and the order of a dependents list).
RECURSIVE Perms(_)
Perms(S) ==
    IF S = {} THEN {<<>>}
    ELSE UNION {{<<x>> \o p : p \in Perms(S \ {x})} : x \in S}

\* A goroutine parked in the select of run() is woken by the first case
\* that becomes ready; one that is not parked is unaffected.
Wake(pc, case) == IF pc = "parked" THEN case ELSE pc

\* The hooks of one kind fired for a task, as a count.
HookCount(t, kind) ==
    Cardinality({i \in 1..Len(hookLog[t]) : hookLog[t][i].hook = kind})

\* Workflow.OnTaskStart, OnTaskSuccess, OnTaskFailure, OnTaskComplete: the
\* registered hooks of the kind are called for the task.
Fire(t, kind, held) ==
    [hookLog EXCEPT ![t] = Append(@, [hook |-> kind, locked |-> held])]

\* -------------------------------------------------------------------- Init
\* newDagScheduler: the state after construction, for every workflow of at
\* most max tasks.
NewDagScheduler(max) ==
    /\ \E n \in 0..max :
        /\ tasks = OrderOf(n)
        /\ depends \in DependsChoices(OrderOf(n))
    /\ depCount = [t \in tasks |-> Cardinality(depends[t])]
    /\ started = [t \in tasks |-> FALSE]
    /\ completed = [t \in tasks |-> FALSE]
    /\ errOnce = Nil
    /\ ctxDone = FALSE
    /\ doneCh = 0
    /\ cancelled = FALSE
    /\ eventCh = <<>>
    /\ mu = "free"
    /\ wg = 0
    /\ dpc = "seed"
    /\ dev = ""
    /\ result = Running
    /\ wpc = [t \in tasks |-> "idle"]
    /\ err = [t \in tasks |-> "none"]
    /\ hookLog = [t \in tasks |-> <<>>]
    /\ dispatches = [t \in tasks |-> 0]
    /\ firstFailed = ""
    /\ exitVia = ""
    /\ lateComplete = FALSE

\* No value returned yet by a DAG method.
NoReturn == [op |-> "", arg |-> "", val |-> <<>>, err |-> "", ok |-> TRUE]

\* A nil *Task.
NilTask == [isNil |-> TRUE, Name |-> "", Depends |-> <<>>]

\* A goroutine that has not called AddTask yet.
Idle == [pc |-> "idle", task |-> NilTask, i |-> 0, err |-> ""]

\* NewDag: empty maps, d.mu unlocked; the goroutines that will call AddTask
\* concurrently have not started.
NewDag(callers) ==
    /\ nodes = <<>>
    /\ edges = <<>>
    /\ dmu = "free"
    /\ adders = [g \in callers |-> Idle]
    /\ ret = NoReturn

\* A nil error returned by Task.Run.
NilError == [format |-> "nil", task |-> "", n |-> 0, cause |-> "nil"]

\* &Task{}: no name, no timeout, no retries, no logger, no hooks.
ZeroTask ==
    [Name |-> "", Timeout |-> 0, Retries |-> 0, logger |-> FALSE,
     PreRun |-> "nil", PostRun |-> "nil"]

\* Task.Run has not been called.
NotRun == [pc |-> "idle", attempt |-> 0, lastErr |-> "nil", ret |-> NilError]

\* A task on which Run is not called.
NoTaskRun ==
    /\ tsk = ZeroTask
    /\ trun = NotRun
    /\ tlog = <<>>

\* &Workflow{}: no steps, no hooks.
ZeroWorkflow == [Steps |-> <<>>, PreRun |-> "nil", PostRun |-> "nil"]

\* Workflow.Run has not been called.
NotStarted == [pc |-> "idle", i |-> 0, err |-> Nil, ret |-> Nil]

\* A scheduler that is run directly, not from Workflow.Run.
NoWorkflowRun ==
    /\ wf = ZeroWorkflow
    /\ wrun = NotStarted
    /\ wlog = <<>>

\* RunAssertions has not been called.
NotAsserted == [pc |-> "idle", i |-> 0, errs |-> <<>>, ret |-> <<>>, isNil |-> TRUE]

\* A task without assertions, on which RunAssertions is not called.
NoAssertionRun ==
    /\ asserts = <<>>
    /\ arun = NotAsserted
    /\ invoked = <<>>

\* No call of RegisterBackend or GetBackend yet.
NoCall == [op |-> "", name |-> "", backend |-> "nil"]

\* init() of backend.go: the built-in backends are registered.
BuiltIn ==
    [name \in {"bash", "docker", "kubernetes"} |->
        CASE name = "bash" -> "BashBackend"
          [] name = "docker" -> "DockerBackend"
          [] OTHER -> "KubernetesBackend"]

\* The registry after the package's init().
InitRegistry ==
    /\ backendRegistry = BuiltIn
    /\ latest = BuiltIn
    /\ lastCall = NoCall

Init ==
    /\ NewDagScheduler(MaxTasks) /\ NewDag({})
    /\ NoTaskRun /\ NoWorkflowRun /\ NoAssertionRun /\ InitRegistry

LiveInit ==
    /\ NewDagScheduler(MaxLiveTasks) /\ NewDag({})
    /\ NoTaskRun /\ NoWorkflowRun /\ NoAssertionRun /\ InitRegistry

\* ------------------------------------------------------------- the driver
\* run(), line 70: a task is seeded when it has no dependencies.
SeedReady(count) == count = 0

\* A run() without the early return of lines 74-77.
Seed_NoEmptyReturn ==
    /\ dpc = "seed"
    /\ \E p \in Perms({t \in tasks : SeedReady(depCount[t])}) :
        eventCh' = [i \in 1..Len(p) |-> ReadyEvent(p[i])]
    /\ dpc' = "select"
    /\ UNCHANGED <<schedVars, lateComplete, dispatches, firstFailed, depCount,
                   started, completed, errOnce, doneCh, cancelled, mu, wg,
                   dev, wpc, err, hookLog, result, ctxDone, exitVia>>

\* run(), lines 67-77: seed the event queue; return nil when there are no
\* tasks (the deferred s.cancel() then cancels the context).
Seed ==
    /\ dpc = "seed"
    /\ \E p \in Perms({t \in tasks : SeedReady(depCount[t])}) :
        eventCh' = [i \in 1..Len(p) |-> ReadyEvent(p[i])]
    /\ IF Cardinality(tasks) = 0
       THEN /\ dpc' = "returned"
            /\ result' = [ret |-> Nil]
            /\ ctxDone' = TRUE
            /\ exitVia' = "empty"
       ELSE /\ dpc' = "select"
            /\ UNCHANGED <<result, ctxDone, exitVia>>
    /\ UNCHANGED <<schedVars, lateComplete, dispatches, firstFailed, depCount, started, completed, errOnce, doneCh,
                   cancelled, mu, wg, dev, wpc, err, hookLog>>

\* A run() that returns nil whatever was recorded.
ReturnValue_Nil(e) == Nil

\* The value run() returns at lines 84, 88, 96 and 100.
ReturnValue(e) == e

Return(via) ==
    /\ dpc' = "returned"
    /\ result' = [ret |-> ReturnValue(errOnce)]
    /\ ctxDone' = TRUE      \* defer s.cancel()
    /\ exitVia' = via

\* A select without the s.ctx.Done() case.
SelectCtxDone_Missing ==
    /\ FALSE
    /\ UNCHANGED vars

\* run(), lines 80-84: case <-s.ctx.Done()
SelectCtxDone ==
    /\ \/ dpc = "select" /\ ctxDone
       \/ dpc = "woke_ctx"
    /\ cancelled' = TRUE
    /\ Return("ctx")
    /\ UNCHANGED <<schedVars, lateComplete, dispatches, firstFailed, depCount, started, completed, errOnce, doneCh,
                   eventCh, mu, wg, dev, wpc, err, hookLog>>

\* run(), lines 86-88: case <-s.doneCh
SelectDoneCh ==
    /\ \/ dpc = "select" /\ doneCh > 0
       \/ dpc = "woke_done"
    /\ doneCh' = doneCh - 1
    /\ Return("doneCh")
    /\ UNCHANGED <<schedVars, lateComplete, dispatches, firstFailed, depCount, started, completed, errOnce,
                   cancelled, eventCh, mu, wg, dev, wpc, err, hookLog>>

\* run(), lines 90-101: case ev := <-s.eventCh
SelectEvent ==
    /\ \/ dpc = "select" /\ eventCh /= <<>>
       \/ dpc = "woke_ev"
    /\ eventCh' = Tail(eventCh)
    /\ LET ev == Head(eventCh) IN
        CASE ev.eventType = "ready" ->
                /\ dpc' = "ready"
                /\ dev' = ev.name
                /\ UNCHANGED <<result, ctxDone, cancelled, exitVia>>
          [] ev.eventType = "done" ->
                /\ Return("done")
                /\ UNCHANGED <<dev, cancelled>>
          [] ev.eventType = "cancel" ->
                /\ cancelled' = TRUE
                /\ Return("cancel")
                /\ UNCHANGED dev
    /\ UNCHANGED <<schedVars, lateComplete, dispatches, firstFailed, depCount, started, completed, errOnce, doneCh,
                   mu, wg, wpc, err, hookLog>>

\* run(), line 80: no case of the select is ready, the driver parks.
SelectPark ==
    /\ dpc = "select"
    /\ ~ctxDone /\ doneCh = 0 /\ eventCh = <<>>
    /\ dpc' = "parked"
    /\ UNCHANGED <<schedVars, lateComplete, dispatches, firstFailed, exitVia, depCount, started, completed, errOnce, ctxDone,
                   doneCh, cancelled, eventCh, mu, wg, dev, result, wpc, err,
                   hookLog>>

\* run(), line 102: case <-time.After(10 * time.Millisecond), taken by a
\* driver that has been parked for 10ms with no other case ready.
SelectTimeout ==
    /\ dpc = "parked"
    /\ dpc' = "tick"
    /\ UNCHANGED <<schedVars, lateComplete, dispatches, firstFailed, exitVia, depCount, started, completed, errOnce, ctxDone,
                   doneCh, cancelled, eventCh, mu, wg, dev, result, wpc, err,
                   hookLog>>

\* run(), lines 103-108: the watchdog reads the completion count under s.mu
\* and posts a done event when every task has completed.
Tick ==
    /\ dpc = "tick"
    /\ mu = "free"
    /\ IF AllCompleted(completed)
       THEN /\ Len(eventCh) < EventCap
            /\ eventCh' = Append(eventCh, DoneEvent)
       ELSE UNCHANGED eventCh
    /\ dpc' = "select"
    /\ UNCHANGED <<schedVars, lateComplete, dispatches, firstFailed, exitVia, depCount, started, completed, errOnce, ctxDone,
                   doneCh, cancelled, mu, wg, dev, result, wpc, err, hookLog>>

\* A dispatch that waits for a free worker slot: the event is dropped while
\* another task is in flight.
ShouldDispatch_OneWorker(name, st) ==
    /\ name \in tasks
    /\ ~st[name]
    /\ \A u \in tasks : wpc[u] \in {"idle", "exited"}

\* handleReady, line 117: the event is dropped when the task is unknown or
\* already started.
ShouldDispatch(name, st) == name \in tasks /\ ~st[name]

\* handleReady, lines 114-125.
HandleReady ==
    /\ dpc = "ready"
    /\ mu = "free"
    /\ IF ShouldDispatch(dev, started)
       THEN /\ started' = [started EXCEPT ![dev] = TRUE]
            /\ wg' = wg + 1
            /\ wpc' = [wpc EXCEPT ![dev] = "start"]
            /\ dispatches' = [dispatches EXCEPT ![dev] = @ + 1]
       ELSE UNCHANGED <<started, wg, wpc, dispatches>>
    /\ dpc' = "select"
    /\ UNCHANGED <<schedVars, lateComplete, firstFailed, exitVia, depCount, completed, errOnce, ctxDone, doneCh,
                   cancelled, eventCh, mu, dev, result, err, hookLog>>

\* ------------------------------------------------------------- the workers
\* A worker that runs the task without firing on_start.
OnStart_NoHook(t) ==
    /\ wpc[t] = "start"
    /\ wpc' = [wpc EXCEPT ![t] = "run"]
    /\ UNCHANGED <<schedVars, lateComplete, dispatches, firstFailed, exitVia,
                   depCount, started, completed, errOnce, ctxDone, doneCh,
                   cancelled, eventCh, mu, wg, dpc, dev, result, err,
                   hookLog>>

\* runTask, line 155: s.w.OnTaskStart(task)
OnStart(t) ==
    /\ wpc[t] = "start"
    /\ hookLog' = Fire(t, "start", mu = t)
    /\ wpc' = [wpc EXCEPT ![t] = "run"]
    /\ UNCHANGED <<schedVars, lateComplete, dispatches, firstFailed, exitVia, depCount, started, completed, errOnce, ctxDone,
                   doneCh, cancelled, eventCh, mu, wg, dpc, dev, result, err>>

\* runTask, line 156: err := task.Run(); a panic unwinds to the deferred
\* recover of line 130.
TaskRun(t) ==
    /\ wpc[t] = "run"
    /\ \E o \in Outcomes :
        IF o = "panic"
        THEN /\ wpc' = [wpc EXCEPT ![t] = "recover"]
             /\ UNCHANGED err
        ELSE /\ wpc' = [wpc EXCEPT ![t] = "result"]
             /\ err' = [err EXCEPT ![t] = o]
    /\ UNCHANGED <<schedVars, lateComplete, dispatches, firstFailed, exitVia, depCount, started, completed, errOnce, ctxDone,
                   doneCh, cancelled, eventCh, mu, wg, dpc, dev, result,
                   hookLog>>

\* The last error overwrites the stored one.
FirstError_LastWins(cur, new) == new

\* runTask, lines 160 and 135: the error is stored only when none is.
FirstError(cur, new) == IF cur = Nil THEN new ELSE cur

\* A worker that stores the first error without calling s.cancel().
CancelNeeded_Never(cur) == FALSE

\* runTask, lines 160-166 and 135-141: s.cancel() is called by the worker
\* that stores the first error.
CancelNeeded(cur) == cur = Nil

\* on_success fired whatever task.Run() returned.
ResultHook_AlwaysSuccess(e) == "success"

\* runTask, lines 158 and 168: which hook a returned task gets.
ResultHook(e) == IF e = "err" THEN "failure" ELSE "success"

\* runTask, lines 157-170: take s.mu, fire on_failure or on_success, record
\* the first error and cancel.
Result(t) ==
    /\ wpc[t] = "result"
    /\ mu = "free"
    /\ mu' = t
    /\ hookLog' = Fire(t, ResultHook(err[t]), mu' = t)
    /\ IF err[t] = "err"
       THEN /\ errOnce' = FirstError(errOnce, WorkflowError(t, FALSE))
            /\ firstFailed' = IF firstFailed = "" THEN t ELSE firstFailed
            /\ IF CancelNeeded(errOnce)
               THEN /\ ctxDone' = TRUE
                    /\ dpc' = Wake(dpc, "woke_ctx")
               ELSE UNCHANGED <<ctxDone, dpc>>
       ELSE UNCHANGED <<errOnce, firstFailed, ctxDone, dpc>>
    /\ wpc' = [wpc EXCEPT ![t] = "mark"]
    /\ UNCHANGED <<schedVars, lateComplete, dispatches, exitVia, depCount, started, completed, doneCh, cancelled,
                   eventCh, wg, dev, result, err>>

\* runTask, lines 157-159 and 169: the on_failure or on_success hook, called
\* by Workflow.OnTaskFailure or Workflow.OnTaskSuccess with s.mu held,
\* panics.  Nothing between the hook and runTask recovers, so the panic
\* unwinds to the deferred function of line 130 with s.mu still locked; the
\* error of lines 160-166 is not recorded.
ResultPanic(t) ==
    /\ wpc[t] = "result"
    /\ mu = "free"
    /\ mu' = t
    /\ hookLog' = Fire(t, ResultHook(err[t]), mu' = t)
    /\ wpc' = [wpc EXCEPT ![t] = "recover"]
    /\ UNCHANGED <<schedVars, lateComplete, dispatches, exitVia, depCount,
                   started, completed, doneCh, cancelled, eventCh, wg, dev,
                   result, err, errOnce, firstFailed, ctxDone, dpc>>

\* runTask, lines 171-178 and 143-150: mark the task completed, signal
\* s.doneCh (without blocking) when every task has completed, release s.mu.
MarkCompleted(t, next) ==
    /\ mu = t
    /\ completed' = [completed EXCEPT ![t] = TRUE]
    /\ IF AllCompleted(completed') /\ doneCh = 0
       THEN /\ doneCh' = 1
            /\ dpc' = Wake(dpc, "woke_done")
       ELSE UNCHANGED <<doneCh, dpc>>
    /\ mu' = "free"
    /\ wpc' = [wpc EXCEPT ![t] = next]
    /\ UNCHANGED <<schedVars, lateComplete, dispatches, firstFailed, exitVia, depCount, started, errOnce, ctxDone, cancelled,
                   eventCh, wg, dev, result, err, hookLog>>

Mark(t) ==
    /\ wpc[t] = "mark"
    /\ MarkCompleted(t, "oncomplete")

\* runTask, line 179: s.w.OnTaskComplete(task)
OnComplete(t) ==
    /\ wpc[t] = "oncomplete"
    /\ hookLog' = Fire(t, "complete", mu = t)
    /\ lateComplete' = (lateComplete \/ dpc = "returned")
    /\ wpc' = [wpc EXCEPT ![t] = "deps"]
    /\ UNCHANGED <<schedVars, dispatches, firstFailed, exitVia, depCount, started, completed, errOnce, ctxDone,
                   doneCh, cancelled, eventCh, mu, wg, dpc, dev, result, err>>

\* A dependent announced ready as soon as one dependency completes.
NewlyReady_AnyCount(count, st) == ~st

\* runTask, line 185: a dependent is announced ready when its count reaches
\* zero and it is not started.
NewlyReady(count, st) == count = 0 /\ ~st

\* Dependents lists in which a task is entered once per dependency name.
Multiplicity_Once(d, name) == IF name \in depends[d] THEN 1 ELSE 0

\* newDagScheduler, lines 44-46: how many times d is in s.dependents[name],
\* once for every entry of d's Depends that is name.  The Depends of a task
\* are those of its step when the scheduler was built by Workflow.Run, and
\* otherwise the names of depends, once each.
Multiplicity(d, name) ==
    IF \E i \in 1..Len(wf.Steps) : wf.Steps[i].Name = d
    THEN LET step == wf.Steps[CHOOSE i \in 1..Len(wf.Steps) :
                                    wf.Steps[i].Name = d]
         IN Cardinality({j \in 1..Len(step.Depends) : step.Depends[j] = name})
    ELSE IF name \in depends[d] THEN 1 ELSE 0

\* runTask, lines 183-187: the dependents of t for which a ready event is
\* sent, the test being made after each decrement.
Announced(t) ==
    {d \in tasks : \E k \in 1..Multiplicity(d, t) :
                        NewlyReady(depCount[d] - k, started[d])}

\* runTask, lines 182-189, then the deferred s.wg.Done(): under s.mu,
\* decrement the count of every dependent, once per entry of
\* s.dependents[name], and post the ready events.
ReleaseDependents(t) ==
    /\ wpc[t] = "deps"
    /\ mu = "free"
    /\ depCount' = [d \in tasks |-> depCount[d] - Multiplicity(d, t)]
    /\ \E p \in Perms(Announced(t)) :
        /\ Len(eventCh) + Len(p) <= EventCap
        /\ eventCh' = eventCh \o [i \in 1..Len(p) |-> ReadyEvent(p[i])]
        /\ dpc' = IF Len(p) > 0 THEN Wake(dpc, "woke_ev") ELSE dpc
    /\ wg' = wg - 1
    /\ wpc' = [wpc EXCEPT ![t] = "exited"]
    /\ UNCHANGED <<schedVars, lateComplete, dispatches, firstFailed, exitVia, started, completed, errOnce, ctxDone, doneCh,
                   cancelled, mu, dev, result, err, hookLog>>

\* A recover that swallows the panic: on_failure fires, but nothing is
\* recorded and nothing is cancelled.
Recover_Swallow(t) ==
    /\ wpc[t] = "recover"
    /\ mu = "free"
    /\ mu' = t
    /\ hookLog' = Fire(t, "failure", mu' = t)
    /\ wpc' = [wpc EXCEPT ![t] = "pmark"]
    /\ UNCHANGED <<schedVars, lateComplete, dispatches, exitVia, depCount,
                   started, completed, doneCh, cancelled, eventCh, wg, dev,
                   result, err, errOnce, firstFailed, ctxDone, dpc>>

\* runTask, lines 131-142: the deferred recover takes s.mu, fires
\* on_failure, records the panic as the first error and cancels.
Recover(t) ==
    /\ wpc[t] = "recover"
    /\ mu = "free"
    /\ mu' = t
    /\ hookLog' = Fire(t, "failure", mu' = t)
    /\ errOnce' = FirstError(errOnce, WorkflowError(t, TRUE))
    /\ firstFailed' = IF firstFailed = "" THEN t ELSE firstFailed
    /\ IF CancelNeeded(errOnce)
       THEN /\ ctxDone' = TRUE
            /\ dpc' = Wake(dpc, "woke_ctx")
       ELSE UNCHANGED <<ctxDone, dpc>>
    /\ wpc' = [wpc EXCEPT ![t] = "pmark"]
    /\ UNCHANGED <<schedVars, lateComplete, dispatches, exitVia, depCount, started, completed, doneCh, cancelled,
                   eventCh, wg, dev, result, err>>

RecoverMark(t) ==
    /\ wpc[t] = "pmark"
    /\ MarkCompleted(t, "pcomplete")

\* A recover path that forgets on_complete.
RecoverComplete_NoHook(t) ==
    /\ wpc[t] = "pcomplete"
    /\ wg' = wg - 1
    /\ wpc' = [wpc EXCEPT ![t] = "exited"]
    /\ UNCHANGED <<schedVars, lateComplete, dispatches, firstFailed, exitVia,
                   depCount, started, completed, errOnce, ctxDone, doneCh,
                   cancelled, eventCh, mu, dpc, dev, result, err, hookLog>>

\* runTask, lines 151-153, then the deferred s.wg.Done().
RecoverComplete(t) ==
    /\ wpc[t] = "pcomplete"
    /\ hookLog' = Fire(t, "complete", mu = t)
    /\ lateComplete' = (lateComplete \/ dpc = "returned")
    /\ wg' = wg - 1
    /\ wpc' = [wpc EXCEPT ![t] = "exited"]
    /\ UNCHANGED <<schedVars, dispatches, firstFailed, exitVia, depCount, started, completed, errOnce, ctxDone,
                   doneCh, cancelled, eventCh, mu, dpc, dev, result, err>>

\* The steps of a worker other than the return of the task body.
WorkerStep(t) ==
    \/ OnStart(t)
    \/ Result(t)
    \/ Mark(t)
    \/ OnComplete(t)
    \/ ReleaseDependents(t)
    \/ Recover(t)
    \/ RecoverMark(t)
    \/ RecoverComplete(t)

Driver ==
    \/ Seed
    \/ SelectCtxDone
    \/ SelectDoneCh
    \/ SelectEvent
    \/ SelectPark
    \/ SelectTimeout
    \/ Tick
    \/ HandleReady

Next ==
    \/ Driver
    \/ \E t \in tasks : WorkerStep(t)
    \/ \E t \in tasks : TaskRun(t)

Spec == Init /\ [][Next]_vars

\* Every name a task can have.
AllNames == OrderOf(MaxTasks)

\* The Go scheduler runs every runnable goroutine: the driver and every
\* worker keep taking steps while they can.  (s.mu is only ever held for a
\* bounded number of steps, so weak fairness is enough.)
GoroutinesRun ==
    /\ WF_vars(Driver)
    /\ \A t \in AllNames : WF_vars(t \in tasks /\ WorkerStep(t))

\* Every task body returns (or panics) in the end.
BodiesReturn == \A t \in AllNames : WF_vars(t \in tasks /\ TaskRun(t))

\* Runs in which every task body and every hook returns.
LiveSpec == LiveInit /\ [][Next]_vars /\ GoroutinesRun /\ BodiesReturn

\* Runs in which hooks return but a task body may block forever.
FailFastSpec == LiveInit /\ [][Next]_vars /\ GoroutinesRun

\* The scheduler with hooks that may panic.
HookPanicNext ==
    \/ Next
    \/ \E t \in tasks : ResultPanic(t)

HookPanicSpec == LiveInit /\ [][HookPanicNext]_vars

\* ================================================================= the DAG
\* The names tasks offered to a DAG may have.
DagNames == OrderOf(MaxNodes)

\* Task.Depends: any list of names; a name may repeat, be the task's own,
\* or be one that is never added.
DependsLists == UNION {[1..k -> DagNames] : k \in 0..MaxDepends}

\* &Task{Name: name, Depends: deps}
NewTask(name, deps) == [isNil |-> FALSE, Name |-> name, Depends |-> deps]

\* What a caller may hand to AddTask: nil, a task without a name, a task.
TaskInputs ==
    {NilTask} \cup
    {NewTask(n, d) : n \in DagNames \cup {""}, d \in DependsLists}

\* The DAG as a value: its two maps.
Dag == [nodes |-> nodes, edges |-> edges]

EmptyDag == [nodes |-> <<>>, edges |-> <<>>]

\* m[k] = v on a Go map.
Put(m, k, v) == [x \in DOMAIN m \cup {k} |-> IF x = k THEN v ELSE m[x]]

\* AddTask, lines 32-37: the rejections made before d.mu is taken.
Malformed(task) ==
    IF task.isNil THEN "task is nil"
    ELSE IF task.Name = "" THEN "task must have a name"
    ELSE "nil"

\* A lookup that never finds the name.
Exists_Never(ns, name) == FALSE

\* _, exists := d.nodes[name]
Exists(ns, name) == name \in DOMAIN ns

\* AddTask, lines 44-52: the node, with Deps and Depends both copied from
\* task.Depends, and the task's own (empty) entry of d.edges.
InsertNode(d, task) ==
    [nodes |-> Put(d.nodes, task.Name,
                   [Deps |-> task.Depends, Depends |-> task.Depends]),
     edges |-> IF task.Name \in DOMAIN d.edges THEN d.edges
               ELSE Put(d.edges, task.Name, <<>>)]

\* A loop body that records the edge only when the dependency is already
\* a node.
InsertDep_OnlyKnown(d, name, dep) ==
    LET es == IF dep \in DOMAIN d.edges THEN d.edges
              ELSE Put(d.edges, dep, <<>>)
    IN [nodes |-> IF Exists(d.nodes, dep)
                  THEN [d.nodes EXCEPT ![dep].Depends = Append(@, name)]
                  ELSE d.nodes,
        edges |-> IF Exists(d.nodes, dep)
                  THEN [es EXCEPT ![dep] = Append(@, name)]
                  ELSE es]

\* AddTask, lines 53-60, one iteration of the loop over task.Depends: the
\* task is appended to d.edges[dep], and to the Depends list of dep's node
\* when that node exists already.
InsertDep(d, name, dep) ==
    LET es == IF dep \in DOMAIN d.edges THEN d.edges
              ELSE Put(d.edges, dep, <<>>)
    IN [nodes |-> IF Exists(d.nodes, dep)
                  THEN [d.nodes EXCEPT ![dep].Depends = Append(@, name)]
                  ELSE d.nodes,
        edges |-> [es EXCEPT ![dep] = Append(@, name)]]

\* AddTask, lines 53-60: the whole loop.
RECURSIVE InsertDeps(_, _, _)
InsertDeps(d, name, deps) ==
    IF deps = <<>> THEN d
    ELSE InsertDeps(InsertDep(d, name, Head(deps)), name, Tail(deps))

\* AddTask from call to return, on the DAG d: the DAG it leaves and the
\* error it returns ("nil" for nil).
AddTaskTo(d, task) ==
    IF Malformed(task) /= "nil" THEN [dag |-> d, err |-> Malformed(task)]
    ELSE IF Exists(d.nodes, task.Name)
         THEN [dag |-> d, err |-> "already exists"]
         ELSE [dag |-> InsertDeps(InsertNode(d, task), task.Name,
                                  task.Depends),
               err |-> "nil"]

\* Validate, lines 69-75 (and GetTopologicalOrder, lines 116-123): some
\* node names a dependency that is not a node.
MissingDependency(ns) ==
    \E n \in DOMAIN ns : \E i \in 1..Len(ns[n].Deps) :
        ~Exists(ns, ns[n].Deps[i])

\* A recursion stack that is never consulted.
OnStack_Never(node, recStack) == FALSE

\* detectCycle, line 95: recStack[node]
OnStack(node, recStack) == node \in recStack

\* detectCycle: depth-first search along Deps; visited and recStack are
\* shared by the whole search, so they are threaded through the result.
RECURSIVE detectCycle(_, _, _, _)
RECURSIVE visitDeps(_, _, _, _)
detectCycle(ns, node, visited, recStack) ==
    IF ~Exists(ns, node)
    THEN [err |-> FALSE, visited |-> visited, recStack |-> recStack]
    ELSE IF OnStack(node, recStack)
    THEN [err |-> TRUE, visited |-> visited, recStack |-> recStack]
    ELSE IF node \in visited
    THEN [err |-> FALSE, visited |-> visited, recStack |-> recStack]
    ELSE LET r == visitDeps(ns, ns[node].Deps, visited \cup {node},
                            recStack \cup {node})
         IN IF r.err THEN r
            ELSE [r EXCEPT !.recStack = @ \ {node}]

\* detectCycle, lines 103-107: the loop over the node's Deps.
visitDeps(ns, deps, visited, recStack) ==
    IF deps = <<>>
    THEN [err |-> FALSE, visited |-> visited, recStack |-> recStack]
    ELSE LET r == detectCycle(ns, Head(deps), visited, recStack)
         IN IF r.err THEN r
            ELSE visitDeps(ns, Tail(deps), r.visited, r.recStack)

\* Validate, lines 79-85: the loop over d.nodes, in the order the map
\* happens to be iterated.
RECURSIVE CheckCycles(_, _, _, _)
CheckCycles(ns, order, visited, recStack) ==
    IF order = <<>> THEN FALSE
    ELSE IF Head(order) \in visited
    THEN CheckCycles(ns, Tail(order), visited, recStack)
    ELSE LET r == detectCycle(ns, Head(order), visited, recStack)
         IN IF r.err THEN TRUE
            ELSE CheckCycles(ns, Tail(order), r.visited, r.recStack)

\* The error Validate returns when d.nodes is iterated in the given order.
ValidateErr(ns, order) ==
    IF MissingDependency(ns) THEN "dependency does not exist"
    ELSE IF CheckCycles(ns, order, {}, {}) THEN "cycle detected"
    ELSE "nil"

\* In-degrees that are all zero.
InDegree_Zero(ns) == [n \in DOMAIN ns |-> 0]

\* GetTopologicalOrder, lines 125-133: inDegree[name] = len(Deps).
InDegree(ns) == [n \in DOMAIN ns |-> Len(ns[n].Deps)]

\* A dependent that is queued at every decrement.
Released_Always(deg) == TRUE

\* GetTopologicalOrder, line 146: a dependent is queued when its in-degree
\* reaches zero.
Released(deg) == deg = 0

\* GetTopologicalOrder, lines 144-149: the loop over d.edges[curr].
RECURSIVE Relax(_, _, _)
Relax(dependents, inDegree, queue) ==
    IF dependents = <<>> THEN [inDegree |-> inDegree, queue |-> queue]
    ELSE LET dep == Head(dependents)
             deg == inDegree[dep] - 1
         IN Relax(Tail(dependents), [inDegree EXCEPT ![dep] = deg],
                  IF Released(deg) THEN Append(queue, dep) ELSE queue)

\* GetTopologicalOrder, lines 140-150: Kahn's loop.  (The order is capped
\* at twice the number of nodes only to keep a wrong queue finite.)
RECURSIVE Kahn(_, _, _, _)
Kahn(d, queue, inDegree, order) ==
    IF queue = <<>> \/ Len(order) >= 2 * Cardinality(DOMAIN d.nodes)
    THEN order
    ELSE LET r == Relax(d.edges[Head(queue)], inDegree, Tail(queue))
         IN Kahn(d, r.queue, r.inDegree, Append(order, Head(queue)))

\* A length test that always passes.
Emerged_Always(order, ns) == TRUE

\* GetTopologicalOrder, line 152: every node emerged.
Emerged(order, ns) == Len(order) = Cardinality(DOMAIN ns)

\* What GetTopologicalOrder returns when the zero-in-degree nodes are
\* queued in the order first.
TopologicalOrder(d, first) ==
    IF MissingDependency(d.nodes)
    THEN [order |-> <<>>, err |-> "dependency does not exist"]
    ELSE LET order == Kahn(d, first, InDegree(d.nodes), <<>>)
         IN [order |-> order,
             err |-> IF Emerged(order, d.nodes) THEN "nil"
                     ELSE "cycle detected"]

\* d.mu.RLock() succeeds when no writer holds d.mu.
RLocked == dmu = "free"

\* --- a single caller: every method runs from call to return
AddTask(task) ==
    /\ dmu = "free"
    /\ LET r == AddTaskTo(Dag, task) IN
        /\ nodes' = r.dag.nodes
        /\ edges' = r.dag.edges
        /\ ret' = [NoReturn EXCEPT !.op = "AddTask", !.arg = task.Name,
                                   !.err = r.err]
    /\ UNCHANGED <<dmu, adders, notDagVars>>

Validate ==
    /\ RLocked
    /\ \E order \in Perms(DOMAIN nodes) :
        ret' = [NoReturn EXCEPT !.op = "Validate",
                                !.err = ValidateErr(nodes, order)]
    /\ UNCHANGED <<nodes, edges, dmu, adders, notDagVars>>

GetTopologicalOrder ==
    /\ RLocked
    /\ \E first \in Perms({n \in DOMAIN nodes : InDegree(nodes)[n] = 0}) :
        LET r == TopologicalOrder(Dag, first) IN
            ret' = [NoReturn EXCEPT !.op = "GetTopologicalOrder",
                                    !.val = r.order, !.err = r.err]
    /\ UNCHANGED <<nodes, edges, dmu, adders, notDagVars>>

\* GetDependencies, lines 158-166: a copy of node.Deps, and whether the
\* node exists.
Dependencies(ns, taskName) ==
    IF Exists(ns, taskName)
    THEN [val |-> ns[taskName].Deps, ok |-> TRUE]
    ELSE [val |-> <<>>, ok |-> FALSE]

GetDependents(taskName) ==
    /\ RLocked
    /\ ret' = IF Exists(nodes, taskName)
              THEN [NoReturn EXCEPT !.op = "GetDependents",
                                    !.arg = taskName,
                                    !.val = nodes[taskName].Depends]
              ELSE [NoReturn EXCEPT !.op = "GetDependents",
                                    !.arg = taskName, !.ok = FALSE]
    /\ UNCHANGED <<nodes, edges, dmu, adders, notDagVars>>

DagInit ==
    /\ NewDagScheduler(0) /\ NewDag({})
    /\ NoTaskRun /\ NoWorkflowRun /\ NoAssertionRun /\ InitRegistry

DagNext ==
    \/ \E task \in TaskInputs : AddTask(task)
    \/ Validate
    \/ GetTopologicalOrder
    \/ \E taskName \in DagNames : GetDependents(taskName)

\* One caller using a DAG: any sequence of AddTask, Validate,
\* GetTopologicalOrder and GetDependents calls.
DagSpec == DagInit /\ [][DagNext]_vars

\* --- concurrent callers of AddTask, one goroutine per task name
\* A mutex anybody can take.
LockFree_Always(m) == TRUE

\* d.mu.Lock() returns when nobody holds d.mu.
LockFree(m) == m = "free"

\* AddTask, lines 32-37.
AddCall(g, task) ==
    /\ adders[g].pc = "idle"
    /\ adders' = [adders EXCEPT ![g] =
                    IF Malformed(task) /= "nil"
                    THEN [pc |-> "returned", task |-> task, i |-> 0,
                          err |-> Malformed(task)]
                    ELSE [pc |-> "lock", task |-> task, i |-> 0,
                          err |-> ""]]
    /\ UNCHANGED <<nodes, edges, dmu, ret, notDagVars>>

\* AddTask, line 39.
AddLock(g) ==
    /\ adders[g].pc = "lock"
    /\ LockFree(dmu)
    /\ dmu' = g
    /\ adders' = [adders EXCEPT ![g].pc = "check"]
    /\ UNCHANGED <<nodes, edges, ret, notDagVars>>

\* AddTask, lines 41-43: the name is looked up; a name that is a node
\* already is rejected, and the deferred d.mu.Unlock() runs.
AddCheck(g) ==
    /\ adders[g].pc = "check"
    /\ IF Exists(nodes, adders[g].task.Name)
       THEN /\ adders' = [adders EXCEPT ![g].pc = "returned",
                                        ![g].err = "already exists"]
            /\ dmu' = "free"
       ELSE /\ adders' = [adders EXCEPT ![g].pc = "node"]
            /\ UNCHANGED dmu
    /\ UNCHANGED <<nodes, edges, ret, notDagVars>>

\* AddTask, lines 44-52.
AddNode(g) ==
    /\ adders[g].pc = "node"
    /\ nodes' = InsertNode(Dag, adders[g].task).nodes
    /\ edges' = InsertNode(Dag, adders[g].task).edges
    /\ adders' = [adders EXCEPT ![g].pc = "deps", ![g].i = 1]
    /\ UNCHANGED <<dmu, ret, notDagVars>>

\* AddTask, lines 53-60: one iteration.
AddDep(g) ==
    /\ adders[g].pc = "deps"
    /\ adders[g].i <= Len(adders[g].task.Depends)
    /\ LET d == InsertDep(Dag, adders[g].task.Name,
                          adders[g].task.Depends[adders[g].i]) IN
        /\ nodes' = d.nodes
        /\ edges' = d.edges
    /\ adders' = [adders EXCEPT ![g].i = @ + 1]
    /\ UNCHANGED <<dmu, ret, notDagVars>>

\* AddTask, line 62, and the deferred d.mu.Unlock().
AddReturn(g) ==
    /\ adders[g].pc = "deps"
    /\ adders[g].i > Len(adders[g].task.Depends)
    /\ dmu' = "free"
    /\ adders' = [adders EXCEPT ![g].pc = "returned", ![g].err = "nil"]
    /\ UNCHANGED <<nodes, edges, ret, notDagVars>>

\* Every goroutine has returned from AddTask (wg.Wait() has returned).
AllReturned == \A g \in DOMAIN adders : adders[g].pc = "returned"

\* Validate called after the goroutines were waited for.
ValidateAfterAdds ==
    /\ AllReturned
    /\ Validate

DagConcInit ==
    /\ NewDagScheduler(0) /\ NewDag(DagNames)
    /\ NoTaskRun /\ NoWorkflowRun /\ NoAssertionRun /\ InitRegistry

DagConcNext ==
    \/ \E g \in DagNames : \E deps \in DependsLists :
            AddCall(g, NewTask(g, deps))
    \/ \E g \in DagNames : AddLock(g)
    \/ \E g \in DagNames : AddCheck(g)
    \/ \E g \in DagNames : AddNode(g)
    \/ \E g \in DagNames : AddDep(g)
    \/ \E g \in DagNames : AddReturn(g)
    \/ ValidateAfterAdds

\* One goroutine per name adds its task, then the DAG is validated.
DagConcSpec == DagConcInit /\ [][DagConcNext]_vars

\* --- concurrent callers of AddTask, several goroutines per task name
\* How many goroutines call AddTask at once.
MaxAdders == 3

GoroutineIds == <<"g1", "g2", "g3", "g4">>

Goroutines == {GoroutineIds[i] : i \in 1..MaxAdders}

DagDupInit ==
    /\ NewDagScheduler(0) /\ NewDag(Goroutines)
    /\ NoTaskRun /\ NoWorkflowRun /\ NoAssertionRun /\ InitRegistry

DagDupNext ==
    \/ \E g \in Goroutines : \E n \in DagNames : \E deps \in DependsLists :
            AddCall(g, NewTask(n, deps))
    \/ \E g \in Goroutines : AddLock(g)
    \/ \E g \in Goroutines : AddCheck(g)
    \/ \E g \in Goroutines : AddNode(g)
    \/ \E g \in Goroutines : AddDep(g)
    \/ \E g \in Goroutines : AddReturn(g)

\* Every goroutine adds one task, of any name and with any Depends: two or
\* more of them may add tasks of the same name.
DagDupSpec == DagDupInit /\ [][DagDupNext]_vars

\* ================================================================ Task.Run
\* A hook of a task or of a workflow: not set, returns nil, returns an error.
Hooks == {"nil", "ok", "err"}

\* The tasks Run is called on: the fields as the caller set them.
RunInputs ==
    [Name : {"", "a"}, Timeout : {0, 5}, Retries : (-1)..MaxRetries,
     logger : BOOLEAN, PreRun : Hooks, PostRun : Hooks]

\* "task-" + uuid.New().String()
UUIDs == {"task-u1", "task-u2"}

\* What executeCommand returns: nil, the error of the command, or the
\* AssertionErrors of RunAssertions.
ExecErrors == {"nil", "exit status 1", "assertion failed"}

\* 100 * time.Second, in seconds.
DefaultTimeout == 100

\* A defaulting that leaves Retries as it is.
DefaultRetries_Keep(r) == r

\* Lines 244-246: if t.Retries == 0 { t.Retries = 1 }
DefaultRetries(r) == IF r = 0 THEN 1 ELSE r

\* Lines 235-246: the defaults of Name, logger, Timeout and Retries.
Defaults(t, uuid) ==
    [t EXCEPT !.Name = IF @ = "" THEN uuid ELSE @,
              !.logger = TRUE,
              !.Timeout = IF @ = 0 THEN DefaultTimeout ELSE @,
              !.Retries = DefaultRetries(@)]

\* fmt.Errorf(format, t.Name, ...): the format and its arguments.
Errorf(format, name, n, cause) ==
    [format |-> format, task |-> name, n |-> n, cause |-> cause]

\* A check that takes every result of executeCommand for an error.
Succeeded_Never(e) == FALSE

\* Line 258: err == nil.
Succeeded(e) == e = "nil"

\* A retry test that also passes on the last attempt.
MoreAttempts_Last(attempt, retries) == attempt <= retries

\* Line 260: attempt < t.Retries.
MoreAttempts(attempt, retries) == attempt < retries

TaskEvent(ev, n, out) == [ev |-> ev, n |-> n, out |-> out]

\* The attempts made so far, as the positions of tlog.
Attempts == {i \in 1..Len(tlog) : tlog[i].ev = "attempt"}

\* The retry delays slept so far.
Sleeps == {i \in 1..Len(tlog) : tlog[i].ev = "sleep"}

\* Run returns.
RunReturn(e) == trun' = [trun EXCEPT !.pc = "done", !.ret = e]

\* Lines 234-247: Run is called and fills in the defaults.
RunCall ==
    /\ trun.pc = "idle"
    /\ \E uuid \in UUIDs : tsk' = Defaults(tsk, uuid)
    /\ trun' = [trun EXCEPT !.pc = "prerun"]
    /\ tlog' = Append(tlog, TaskEvent("call", tsk.Retries, ""))
    /\ UNCHANGED notTaskVars

\* Lines 248-255: PreRun, when set, is called; its error is returned.
RunPreRun ==
    /\ trun.pc = "prerun"
    /\ IF tsk.PreRun = "nil"
       THEN /\ trun' = [trun EXCEPT !.pc = "loop", !.attempt = 1]
            /\ tlog' = tlog
       ELSE /\ tlog' = Append(tlog, TaskEvent("PreRun", 0, tsk.PreRun))
            /\ IF tsk.PreRun = "err"
               THEN RunReturn(Errorf("pre-run hook failed for task", tsk.Name,
                                     0, "hook error"))
               ELSE trun' = [trun EXCEPT !.pc = "loop", !.attempt = 1]
    /\ UNCHANGED <<tsk, notTaskVars>>

\* Lines 256-267: one pass of the loop, up to the sleep, the return or the
\* next pass.
Attempt ==
    /\ trun.pc = "loop"
    /\ trun.attempt <= tsk.Retries
    /\ \E e \in ExecErrors :
        /\ tlog' = Append(tlog, TaskEvent("attempt", trun.attempt, e))
        /\ IF ~Succeeded(e)
           THEN IF MoreAttempts(trun.attempt, tsk.Retries)
                THEN trun' = [trun EXCEPT !.pc = "sleep", !.lastErr = e]
                ELSE trun' = [trun EXCEPT !.pc = "done", !.lastErr = e,
                                !.ret = Errorf("task failed after attempts",
                                               tsk.Name, tsk.Retries, e)]
           ELSE RunReturn(NilError)
    /\ UNCHANGED <<tsk, notTaskVars>>

\* Lines 262-263: time.Sleep(1 * time.Second); continue.
Sleep ==
    /\ trun.pc = "sleep"
    /\ tlog' = Append(tlog, TaskEvent("sleep", trun.attempt, ""))
    /\ trun' = [trun EXCEPT !.pc = "loop", !.attempt = @ + 1]
    /\ UNCHANGED <<tsk, notTaskVars>>

\* Lines 268-276: the loop ends because attempt > t.Retries; PostRun, when
\* set, is called; its error, or lastErr, is returned.
RunPostRun ==
    /\ trun.pc = "loop"
    /\ ~(trun.attempt <= tsk.Retries)
    /\ IF tsk.PostRun = "nil"
       THEN /\ tlog' = tlog
            /\ RunReturn(Errorf(trun.lastErr, "", 0, trun.lastErr))
       ELSE /\ tlog' = Append(tlog, TaskEvent("PostRun", 0, tsk.PostRun))
            /\ IF tsk.PostRun = "err"
               THEN RunReturn(Errorf("post-run hook failed for task", tsk.Name,
                                     0, "hook error"))
               ELSE RunReturn(Errorf(trun.lastErr, "", 0, trun.lastErr))
    /\ UNCHANGED <<tsk, notTaskVars>>

\* A task as its caller built it, before Run.
TaskInit ==
    /\ NewDagScheduler(0) /\ NewDag({})
    /\ tsk \in RunInputs
    /\ trun = NotRun
    /\ tlog = <<>>
    /\ NoWorkflowRun /\ NoAssertionRun /\ InitRegistry

TaskNext ==
    \/ RunCall
    \/ RunPreRun
    \/ Attempt
    \/ Sleep
    \/ RunPostRun

TaskSpec == TaskInit /\ [][TaskNext]_vars

\* ============================================================ Workflow.Run
\* The names of the steps of a workflow; a step may come without one.
StepNames == DagNames \cup {""}

\* Task.Depends of a step: names of steps or of no step; a name may repeat.
StepDepends == DependsLists

\* w.Steps
StepLists ==
    UNION {[1..k -> {NewTask(n, l) : n \in StepNames, l \in StepDepends}] :
                k \in 0..MaxSteps}

\* The workflows Run is called on.
WorkflowInputs == [Steps : StepLists, PreRun : Hooks, PostRun : Hooks]

\* fmt.Errorf("pre-run hook failed for workflow %s: %v", w.Name, err) and
\* its post-run twin.
HookError(format) == [format |-> format, cause |-> "hook error"]

\* &WorkflowError{StepName: step, WorkflowName: w.Name, Err: err} with an
\* error of the DAG.
DagError(step, inner) == [step |-> step, inner |-> inner]

\* The workers of the scheduler that have been dispatched and have not
\* returned.
Executing == {t \in tasks : ~(wpc[t] \in {"idle", "exited"})}

\* A call of a hook of the workflow, with what the scheduler had returned
\* and what its tasks were doing at the time of the call.
WorkflowEvent(hook, e) ==
    [hook |-> hook, err |-> e, built |-> DOMAIN nodes,
     completed |-> {t \in tasks : completed[t]},
     succeeded |-> {t \in tasks : err[t] = "ok"},
     executing |-> Executing]

\* A PreRun whose error is ignored.
PreRunFailed_Never(hook) == FALSE

\* Line 81: err != nil for the error PreRun returned.
PreRunFailed(hook) == hook = "err"

\* An AddTask whose error is ignored.
Added_Always(e) == TRUE

\* Line 89: err == nil for the error dag.AddTask returned.
Added(e) == e = "nil"

\* Workflow.Run returns.
WorkflowReturn(e) == wrun' = [wrun EXCEPT !.pc = "done", !.ret = e]

\* No scheduler has been constructed.
Unbuilt ==
    /\ tasks = {}
    /\ depends = <<>>
    /\ depCount = <<>>
    /\ started = <<>>
    /\ completed = <<>>
    /\ errOnce = Nil
    /\ ctxDone = FALSE
    /\ doneCh = 0
    /\ cancelled = FALSE
    /\ eventCh = <<>>
    /\ mu = "free"
    /\ wg = 0
    /\ dpc = "unbuilt"
    /\ dev = ""
    /\ result = Running
    /\ wpc = <<>>
    /\ err = <<>>
    /\ hookLog = <<>>
    /\ dispatches = <<>>
    /\ firstFailed = ""
    /\ exitVia = ""
    /\ lateComplete = FALSE

\* A count of the distinct names of Depends.
CountOf_Distinct(deps) == Cardinality({deps[i] : i \in 1..Len(deps)})

\* newDagScheduler, line 43: depCount[t.Name] = len(t.Depends)
CountOf(deps) == Len(deps)

\* newDagScheduler(w, order): the scheduler of the tasks of the order, each
\* with its own Depends; run() is about to start.
newDagScheduler(order) ==
    LET names == {order[i].Name : i \in 1..Len(order)}
        step(n) == CHOOSE i \in 1..Len(order) : order[i].Name = n
    IN  /\ tasks' = names
        /\ depends' = [n \in names |->
                {order[step(n)].Depends[i] :
                    i \in 1..Len(order[step(n)].Depends)}]
        /\ depCount' = [n \in names |-> CountOf(order[step(n)].Depends)]
        /\ started' = [n \in names |-> FALSE]
        /\ completed' = [n \in names |-> FALSE]
        /\ errOnce' = Nil
        /\ ctxDone' = FALSE
        /\ doneCh' = 0
        /\ cancelled' = FALSE
        /\ eventCh' = <<>>
        /\ mu' = "free"
        /\ wg' = 0
        /\ dpc' = "seed"
        /\ dev' = ""
        /\ result' = Running
        /\ wpc' = [n \in names |-> "idle"]
        /\ err' = [n \in names |-> "none"]
        /\ hookLog' = [n \in names |-> <<>>]
        /\ dispatches' = [n \in names |-> 0]
        /\ firstFailed' = ""
        /\ exitVia' = ""
        /\ lateComplete' = FALSE

\* Lines 73-86: Run is called; PreRun, when set, is called and its error is
\* returned; otherwise the DAG is created.
WorkflowPreRun ==
    /\ wrun.pc = "idle"
    /\ IF wf.PreRun = "nil"
       THEN /\ wlog' = wlog
            /\ wrun' = [wrun EXCEPT !.pc = "build", !.i = 1]
       ELSE /\ wlog' = Append(wlog, WorkflowEvent("PreRun", Nil))
            /\ IF PreRunFailed(wf.PreRun)
               THEN WorkflowReturn(HookError("pre-run hook failed for workflow"))
               ELSE wrun' = [wrun EXCEPT !.pc = "build", !.i = 1]
    /\ UNCHANGED <<wf, runVars, dagVars, taskVars, assertVars, regVars>>

\* Lines 87-97: one pass of the loop over w.Steps.
WorkflowAddTask ==
    /\ wrun.pc = "build"
    /\ wrun.i <= Len(wf.Steps)
    /\ LET r == AddTaskTo(Dag, wf.Steps[wrun.i]) IN
        /\ nodes' = r.dag.nodes
        /\ edges' = r.dag.edges
        /\ IF Added(r.err)
           THEN wrun' = [wrun EXCEPT !.i = @ + 1]
           ELSE WorkflowReturn(DagError(wf.Steps[wrun.i].Name, r.err))
    /\ UNCHANGED <<wf, wlog, dmu, adders, ret, runVars, taskVars, assertVars,
                   regVars>>

\* Lines 98-105: dag.Validate() after the loop.
WorkflowValidate ==
    /\ wrun.pc = "build"
    /\ ~(wrun.i <= Len(wf.Steps))
    /\ \E order \in Perms(DOMAIN nodes) :
        LET e == ValidateErr(nodes, order) IN
            IF e = "nil"
            THEN wrun' = [wrun EXCEPT !.pc = "schedule"]
            ELSE WorkflowReturn(DagError("DAG", e))
    /\ UNCHANGED <<wf, wlog, runVars, dagVars, taskVars, assertVars, regVars>>

\* Line 106 and runParallelDAG, lines 120-131: the topological order, its
\* error, or the scheduler of the order, whose run() is called.
WorkflowSchedule ==
    /\ wrun.pc = "schedule"
    /\ \E first \in Perms({n \in DOMAIN nodes : InDegree(nodes)[n] = 0}) :
        LET r == TopologicalOrder(Dag, first) IN
            IF r.err = "nil"
            THEN /\ newDagScheduler(wf.Steps)
                 /\ wrun' = [wrun EXCEPT !.pc = "running"]
            ELSE /\ wrun' = [wrun EXCEPT !.pc = "postrun",
                                         !.err = DagError("DAG", r.err)]
                 /\ UNCHANGED runVars
    /\ UNCHANGED <<wf, wlog, dagVars, taskVars, assertVars, regVars>>

\* Lines 106-115: runParallelDAG has returned err; PostRun, when set, is
\* called; its error, or err, is returned.
WorkflowPostRun ==
    /\ \/ wrun.pc = "postrun"
       \/ wrun.pc = "running" /\ dpc = "returned"
    /\ LET e == IF wrun.pc = "postrun" THEN wrun.err ELSE result.ret IN
        IF wf.PostRun = "nil"
        THEN /\ wlog' = wlog
             /\ wrun' = [wrun EXCEPT !.pc = "done", !.err = e, !.ret = e]
        ELSE /\ wlog' = Append(wlog, WorkflowEvent("PostRun", e))
             /\ IF wf.PostRun = "err"
                THEN wrun' = [wrun EXCEPT !.pc = "done", !.err = e,
                        !.ret = HookError("post-run hook failed for workflow")]
                ELSE wrun' = [wrun EXCEPT !.pc = "done", !.err = e, !.ret = e]
    /\ UNCHANGED <<wf, runVars, dagVars, taskVars, assertVars, regVars>>

\* A workflow as its caller built it, before Run.
WorkflowInit ==
    /\ Unbuilt /\ NewDag({})
    /\ wf \in WorkflowInputs
    /\ wrun = NotStarted
    /\ wlog = <<>>
    /\ NoTaskRun /\ NoAssertionRun /\ InitRegistry

WorkflowNext ==
    \/ WorkflowPreRun
    \/ WorkflowAddTask
    \/ WorkflowValidate
    \/ WorkflowSchedule
    \/ WorkflowPostRun
    \/ Driver
    \/ \E t \in tasks : WorkerStep(t)
    \/ \E t \in tasks : TaskRun(t)

WorkflowSpec == WorkflowInit /\ [][WorkflowNext]_vars

\* =========================================================== RunAssertions
\* What an assertion returns: nil, or an error with a message.
NoFailure == [isNil |-> TRUE, msg |-> ""]

AssertionError(msg) == [isNil |-> FALSE, msg |-> msg]

AssertResults == {NoFailure, AssertionError("m1"), AssertionError("m2")}

\* task.Asserts, each assertion as what it returns for the task.
AssertLists == UNION {[1..k -> AssertResults] : k \in 0..MaxAsserts}

\* strings.Join(msgs, sep): the pieces of the resulting string.
RECURSIVE Join(_, _)
Join(msgs, sep) ==
    IF Len(msgs) = 0 THEN <<>>
    ELSE IF Len(msgs) = 1 THEN <<msgs[1]>>
    ELSE <<msgs[1], sep>> \o Join(Tail(msgs), sep)

\* AssertionErrors.Error(), lines 116-122.
Error(ae) == Join([i \in 1..Len(ae) |-> ae[i].msg], "; ")

\* A loop that drops every error.
AssertionFailed_Never(e) == FALSE

\* Line 128: err != nil.
AssertionFailed(e) == ~e.isNil

\* Lines 125-126: RunAssertions is called; errs is nil.
AssertCall ==
    /\ arun.pc = "idle"
    /\ arun' = [arun EXCEPT !.pc = "loop", !.i = 1, !.errs = <<>>]
    /\ UNCHANGED <<asserts, invoked, notAssertVars>>

\* Lines 127-131: one pass of the loop over task.Asserts.
AssertNext ==
    /\ arun.pc = "loop"
    /\ arun.i <= Len(asserts)
    /\ invoked' = Append(invoked, arun.i)
    /\ arun' = [arun EXCEPT
            !.i = @ + 1,
            !.errs = IF AssertionFailed(asserts[arun.i])
                     THEN Append(@, asserts[arun.i]) ELSE @]
    /\ UNCHANGED <<asserts, notAssertVars>>

\* Lines 132-135: after the loop, errs is returned when it is not empty,
\* and nil otherwise.
AssertReturn ==
    /\ arun.pc = "loop"
    /\ ~(arun.i <= Len(asserts))
    /\ arun' = [arun EXCEPT !.pc = "done", !.ret = arun.errs,
                            !.isNil = ~(Len(arun.errs) > 0)]
    /\ UNCHANGED <<asserts, invoked, notAssertVars>>

\* A task with its assertions, before RunAssertions.
AssertInit ==
    /\ NewDagScheduler(0) /\ NewDag({})
    /\ asserts \in AssertLists
    /\ arun = NotAsserted
    /\ invoked = <<>>
    /\ NoTaskRun /\ NoWorkflowRun /\ InitRegistry

AssertNextStep ==
    \/ AssertCall
    \/ AssertNext
    \/ AssertReturn

AssertSpec == AssertInit /\ [][AssertNextStep]_vars

\* ==================================================== the backend registry
\* The names RegisterBackend is called with: a built-in one and new ones.
RegisterNames == {"bash", "mock", "test-fail"}

\* The backends it is called with; a nil Backend is accepted.
Backends == {"MockBackend", "testBackend", "nil"}

\* The names GetBackend is called with.
LookupNames == RegisterNames \cup {"kubernetes", "unknown"}

\* A registration that keeps the backend a name already has.
Register_Once(reg, name, backend) ==
    IF name \in DOMAIN reg THEN reg ELSE Put(reg, name, backend)

\* Line 60: backendRegistry[name] = backend.
Register(reg, name, backend) == Put(reg, name, backend)

\* Lines 65-68: the backend of the name when there is one, nil otherwise.
Lookup(reg, name) == IF name \in DOMAIN reg THEN reg[name] ELSE "nil"

RegistryCall(op, name, backend) == [op |-> op, name |-> name, backend |-> backend]

\* RegisterBackend(name, backend), lines 59-61.
RegisterBackend(name, backend) ==
    /\ backendRegistry' = Register(backendRegistry, name, backend)
    /\ latest' = Put(latest, name, backend)
    /\ lastCall' = RegistryCall("RegisterBackend", name, backend)
    /\ UNCHANGED notRegVars

\* GetBackend(name), lines 64-69.
GetBackend(name) ==
    /\ lastCall' = RegistryCall("GetBackend", name, Lookup(backendRegistry, name))
    /\ UNCHANGED <<backendRegistry, latest, notRegVars>>

\* The registry after init(), before any other call.
RegistryInit ==
    /\ NewDagScheduler(0) /\ NewDag({})
    /\ InitRegistry
    /\ NoTaskRun /\ NoWorkflowRun /\ NoAssertionRun

RegistryNext ==
    \/ \E name \in RegisterNames, backend \in Backends :
            RegisterBackend(name, backend)
    \/ \E name \in LookupNames : GetBackend(name)

RegistrySpec == RegistryInit /\ [][RegistryNext]_vars

\* ------------------------------------------------- vocabulary of the claims
\* The names in a list.
Range(list) == {list[i] : i \in 1..Len(list)}

\* How many times a name occurs in a list.
Count(list, x) == Cardinality({i \in 1..Len(list) : list[i] = x})

\* The DAG left by AddTask calls made one after the other, in the given
\* order of names, for the task of each name; ok: every call returned nil.
RECURSIVE Build(_, _, _)
Build(b, taskOf, order) ==
    IF order = <<>> THEN b
    ELSE LET r == AddTaskTo(b.dag, taskOf[Head(order)])
         IN Build([dag |-> r.dag, ok |-> b.ok /\ r.err = "nil"], taskOf,
                  Tail(order))

Sequential(taskOf, order) == Build([dag |-> EmptyDag, ok |-> TRUE], taskOf, order)

\* The same nodes, the same Deps list per node and, per name, the same
\* collection of dependents in d.edges (whatever their order).
SameGraph(d1, d2) ==
    /\ DOMAIN d1.nodes = DOMAIN d2.nodes
    /\ \A n \in DOMAIN d1.nodes : d1.nodes[n].Deps = d2.nodes[n].Deps
    /\ DOMAIN d1.edges = DOMAIN d2.edges
    /\ \A k \in DOMAIN d1.edges : \A x \in DagNames :
            Count(d1.edges[k], x) = Count(d2.edges[k], x)

\* Validate and GetTopologicalOrder return the same error, or nil, on both
\* DAGs (of the same nodes), whatever the order in which the maps are
\* iterated.
SameVerdicts(d1, d2) ==
    /\ \A order \in Perms(DOMAIN d1.nodes) :
            ValidateErr(d1.nodes, order) = ValidateErr(d2.nodes, order)
    /\ \A first \in Perms({n \in DOMAIN d1.nodes : InDegree(d1.nodes)[n] = 0}) :
            TopologicalOrder(d1, first).err = TopologicalOrder(d2, first).err

\* Every dependency named by a node is a node.
DependencyClosed(ns) == \A n \in DOMAIN ns : Range(ns[n].Deps) \subseteq DOMAIN ns

\* Some chain of nodes, each a dependency of the one before, leads from a
\* node back to itself (a self-dependency is the chain of one node).
Cyclic(ns) ==
    \E k \in 1..Cardinality(DOMAIN ns) : \E path \in [1..k -> DOMAIN ns] :
        /\ \A i \in 1..(k - 1) : path[i + 1] \in Range(ns[path[i]].Deps)
        /\ path[1] \in Range(ns[path[k]].Deps)

\* The tasks a task depends on, directly or transitively.
RECURSIVE Ancestors(_)
Ancestors(t) == depends[t] \cup UNION {Ancestors(u) : u \in depends[t]}

\* The worker of t recovered a panic of task.Run() (runTask, line 131).
Panicked(t) ==
    \/ wpc[t] \in {"recover", "pmark", "pcomplete"}
    \/ wpc[t] = "exited" /\ err[t] = "none"

\* task.Run() of t returned an error or panicked.
Failed(t) == err[t] = "err" \/ Panicked(t)

\* The hooks fired for t so far, by kind, in order.
HookKinds(t) == [i \in 1..Len(hookLog[t]) |-> hookLog[t][i].hook]

Diamond ==
    /\ tasks = {"a", "b", "c", "d"}
    /\ depends = [t \in tasks |->
                    CASE t = "a" -> {}
                      [] t \in {"b", "c"} -> {"a"}
                      [] t = "d" -> {"b", "c"}]

\* ---------------------------------------------------------------------- C1
\* C1: whenever a task B has been dispatched (marked started), every task A
\* that B depends on, directly or transitively, has been dispatched, is
\* marked completed and its on_complete hook has returned.  B's on_start
\* fires after B is marked started, so it is covered too.  In the diamond
\* a -> {b, c} -> d this makes d wait for both b and c.
C1_DependenciesCompleteBeforeDispatch ==
    \A b \in tasks :
        started[b] =>
            \A a \in Ancestors(b) :
                /\ started[a]
                /\ completed[a]
                /\ HookCount(a, "complete") = 1

C1_Witness ==
    /\ Diamond
    /\ started["d"]
    /\ HookCount("d", "start") = 1
    /\ HookCount("b", "complete") = 1
    /\ HookCount("c", "complete") = 1

\* ---------------------------------------------------------------------- C2
\* C2: once a task has failed, no task whose dependency chain crosses it is
\* dispatched: it is never marked started and none of its hooks fires.
C2_NoDispatchAfterFailedDependency ==
    \A b \in tasks :
        (\E a \in Ancestors(b) : Failed(a)) =>
            /\ ~started[b]
            /\ hookLog[b] = <<>>

C4_ExactlyOneOnComplete ==
    /\ [](\A t \in tasks :
            /\ HookCount(t, "complete") <= 1
            /\ ~started[t] => HookCount(t, "complete") = 0
            /\ wpc[t] = "exited" => HookCount(t, "complete") = 1)
    /\ \A n \in AllNames :
            (n \in tasks /\ started[n]) ~>
                (n \in tasks /\ HookCount(n, "complete") = 1
                    /\ wpc[n] = "exited")

C4_Witness ==
    /\ dpc = "returned"
    /\ errOnce /= Nil
    /\ lateComplete
    /\ \A t \in tasks : started[t] => HookCount(t, "complete") = 1
    /\ \E t \in tasks : t /= errOnce.step /\ started[t]

\* ---------------------------------------------------------------------- C5
\* C5: a task never gets both on_success and on_failure, and once it is
\* marked completed it has got exactly one of them: on_failure only when its
\* Run returned an error or panicked, on_success only when Run returned nil.
C5_ExactlyOneOfSuccessFailure ==
    \A t \in tasks :
        /\ HookCount(t, "success") + HookCount(t, "failure") <= 1
        /\ completed[t] =>
            /\ HookCount(t, "success") + HookCount(t, "failure") = 1
            /\ Failed(t) => HookCount(t, "failure") = 1
            /\ err[t] = "ok" => HookCount(t, "success") = 1

C5_Witness ==
    /\ \E t \in tasks : completed[t] /\ err[t] = "err"
    /\ \E t \in tasks : completed[t] /\ err[t] = "ok"
    /\ \E t \in tasks : completed[t] /\ Panicked(t)

\* ---------------------------------------------------------------------- C6
\* C6: the hooks of a task fire in the order on_start, then on_success or
\* on_failure, then on_complete: what has fired so far is always a prefix of
\* one of these two sequences, so on_complete never fires before on_start.
C6_HookOrder ==
    \A t \in tasks :
        \E full \in {<<"start", "success", "complete">>,
                     <<"start", "failure", "complete">>} :
            /\ Len(hookLog[t]) <= 3
            /\ HookKinds(t) = SubSeq(full, 1, Len(hookLog[t]))

C6_Witness ==
    /\ \E t \in tasks : HookKinds(t) = <<"start", "success", "complete">>
    /\ \E t \in tasks :
        HookKinds(t) = <<"start", "failure", "complete">> /\ Panicked(t)
    /\ \E t \in tasks :
        HookKinds(t) = <<"start", "failure", "complete">> /\ err[t] = "err"

\* ---------------------------------------------------------------------- C7
\* C7: errOnce is written at most once, by the first worker that records a
\* failure under s.mu, and never changes afterwards; a task that fails later
\* still gets on_failure; and what run() returned is that first error.
C7_FirstErrorWins ==
    /\ [][errOnce /= Nil => errOnce' = errOnce]_vars
    /\ [](errOnce = IF firstFailed = "" THEN Nil
                    ELSE WorkflowError(firstFailed, Panicked(firstFailed)))
    /\ [](\A t \in tasks : (completed[t] /\ Failed(t)) =>
                                HookCount(t, "failure") = 1)
    /\ [](dpc = "returned" => result = [ret |-> errOnce])

C7_Witness ==
    /\ dpc = "returned"
    /\ errOnce /= Nil
    /\ \E t \in tasks :
        /\ t /= errOnce.step
        /\ completed[t]
        /\ Failed(t)
        /\ HookCount(t, "failure") = 1

C9_RunTerminates ==
    /\ <>(dpc = "returned")
    /\ []((dpc = "returned" /\ tasks /= {} /\ errOnce = Nil) =>
            (exitVia \in {"doneCh", "done"} /\ AllCompleted(completed)))
    /\ []((dpc = "returned" /\ ~AllCompleted(completed)) =>
            (exitVia = "ctx" /\ errOnce /= Nil))

C9_Witness ==
    /\ dpc = "returned"
    /\ exitVia = "ctx"
    /\ \A t \in tasks : wpc[t] \in {"idle", "exited"}
    /\ \E t \in tasks : ~started[t] /\ \E a \in Ancestors(t) : Failed(a)

\* --------------------------------------------------------------------- C10
\* C10: once a failure has been recorded (and cancellation triggered), run()
\* eventually returns that first error, without waiting for a task body that
\* is still running and may never return.
C10_FailFast ==
    \A n \in AllNames :
        (errOnce /= Nil /\ errOnce.step = n) ~>
            (dpc = "returned" /\ result = [ret |-> errOnce]
                /\ errOnce.step = n)

C10_Witness ==
    /\ dpc = "returned"
    /\ result = [ret |-> errOnce]
    /\ errOnce /= Nil
    /\ \E t \in tasks : wpc[t] = "run" /\ t \notin Ancestors(errOnce.step)
                        /\ errOnce.step \notin Ancestors(t)

\* --------------------------------------------------------------------- C11
\* C11: a task whose body panicked inside task.Run() is handled by the
\* deferred recover as a failure: on_success never fires for it; once the
\* recover has run, on_failure has fired exactly once, an error is recorded
\* (the panic of this very task when none was recorded before), and the
\* context is cancelled; the task is then marked completed and on_complete
\* fires exactly once before the worker exits; and run() does not return
\* nil.
C11_PanicIsFailure ==
    \A t \in tasks : Panicked(t) =>
        /\ HookCount(t, "success") = 0
        /\ wpc[t] \in {"pmark", "pcomplete", "exited"} =>
            /\ HookCount(t, "failure") = 1
            /\ errOnce /= Nil
            /\ firstFailed = t => errOnce = WorkflowError(t, TRUE)
            /\ ctxDone
        /\ wpc[t] \in {"pcomplete", "exited"} => completed[t]
        /\ HookCount(t, "complete") = IF wpc[t] = "exited" THEN 1 ELSE 0
        /\ dpc = "returned" => result /= [ret |-> Nil]

C11_Witness ==
    \E t \in tasks :
        /\ Panicked(t)
        /\ wpc[t] = "exited"
        /\ firstFailed = t
        /\ dpc = "returned"
        /\ result = [ret |-> WorkflowError(t, TRUE)]
        /\ HookKinds(t) = <<"start", "failure", "complete">>

\* --------------------------------------------------------------------- C12
\* C12: no lifecycle hook (on_start, on_success, on_failure, on_complete)
\* is invoked while the calling worker holds s.mu, on the normal path and
\* on the panic-recovery path alike.
C12_NoHookUnderMutex ==
    \A t \in tasks : \A i \in 1..Len(hookLog[t]) : ~hookLog[t][i].locked

C14_ValidateIffClosedAndAcyclic ==
    ret.op = "Validate" =>
        (ret.err = "nil" <=> (DependencyClosed(nodes) /\ ~Cyclic(nodes)))

\* Validate rejected a DAG of a valid node c beside the cycle a <-> b, which
\* no node without dependencies leads to.
C14_Witness ==
    /\ ret.op = "Validate"
    /\ ret.err = "cycle detected"
    /\ DOMAIN nodes = {"a", "b", "c"}
    /\ nodes["a"].Deps = <<"b">>
    /\ nodes["b"].Deps = <<"a">>
    /\ nodes["c"].Deps = <<>>

\* --------------------------------------------------------------------- C15
\* C15: when the DAG passes Validate, GetTopologicalOrder returns no error
\* and an order that holds every added task exactly once, each task
\* strictly after every one of its dependencies.
C15_TopologicalOrderOfValidDag ==
    (/\ ret.op = "GetTopologicalOrder"
     /\ \E order \in Perms(DOMAIN nodes) : ValidateErr(nodes, order) = "nil")
    => /\ ret.err = "nil"
       /\ Len(ret.val) = Cardinality(DOMAIN nodes)
       /\ Range(ret.val) = DOMAIN nodes
       /\ \A i \in 1..Len(ret.val) : \A dep \in Range(nodes[ret.val[i]].Deps) :
            \E j \in 1..(i - 1) : ret.val[j] = dep

\* The order of a DAG of three tasks, one of which waits for the other two.
C15_Witness ==
    /\ ret.op = "GetTopologicalOrder"
    /\ ret.err = "nil"
    /\ Len(ret.val) = 3
    /\ \E n \in DOMAIN nodes : Cardinality(Range(nodes[n].Deps)) = 2

\* --------------------------------------------------------------------- C16
\* C16: when every dependency exists but the graph has a cycle,
\* GetTopologicalOrder returns the "cycle detected" error, with fewer
\* nodes in the order than were added; it never returns nil for a cyclic
\* graph.
C16_TopologicalOrderDetectsCycle ==
    /\ (ret.op = "GetTopologicalOrder" /\ DependencyClosed(nodes)
            /\ Cyclic(nodes))
        => (ret.err = "cycle detected"
                /\ Len(ret.val) < Cardinality(DOMAIN nodes))
    /\ (ret.op = "GetTopologicalOrder" /\ Cyclic(nodes)) => ret.err /= "nil"

\* Of three nodes only the one outside the cycle emerged.
C16_Witness ==
    /\ ret.op = "GetTopologicalOrder"
    /\ ret.err = "cycle detected"
    /\ Cardinality(DOMAIN nodes) = 3
    /\ Len(ret.val) = 1
    /\ DependencyClosed(nodes)

\* --------------------------------------------------------------------- C17
\* C17: an AddTask call that returns an error (the name already present,
\* a nil task, an empty name) leaves d.nodes, every node's Deps list and
\* d.edges exactly as they were; a call for a name that is already a node
\* returns the "already exists" error, and a call without a name returns
\* one of the other two.
C17_RejectedAddLeavesDagUnchanged ==
    /\ [][(ret'.op = "AddTask" /\ ret'.err /= "nil")
            => (nodes' = nodes /\ edges' = edges)]_vars
    /\ [][(ret' /= ret /\ ret'.op = "AddTask" /\ ret'.arg \in DOMAIN nodes)
            => ret'.err = "already exists"]_vars
    /\ []((ret.op = "AddTask" /\ ret.arg = "")
            => ret.err \in {"task is nil", "task must have a name"})

\* A duplicate was rejected by a DAG that has edges to lose.
C17_Witness ==
    /\ ret.op = "AddTask"
    /\ ret.err = "already exists"
    /\ nodes[ret.arg].Deps /= <<>>
    /\ \E k \in DOMAIN edges : edges[k] /= <<>>

\* --------------------------------------------------------------------- C18
\* C18: AddTask accepts a task whatever its dependencies, and the graph
\* it leaves does not depend on the order of the calls: adding the tasks
\* of the DAG in any order, every call returns nil and the result has the
\* same nodes, the same Deps per node and the same collection of
\* dependents per name in d.edges as the DAG at hand, and Validate and
\* GetTopologicalOrder give the same verdicts on it.
C18_InsertionOrderIrrelevant ==
    ret.op = "AddTask" =>
        \A order \in Perms(DOMAIN nodes) :
            LET b == Sequential([n \in DOMAIN nodes |->
                                    NewTask(n, nodes[n].Deps)], order)
            IN /\ b.ok
               /\ SameGraph(b.dag, Dag)
               /\ SameVerdicts(b.dag, Dag)

\* b was added before the task a it depends on (a's node does not list b
\* in Depends), and c depends on both.
C18_Witness ==
    /\ ret.op = "AddTask"
    /\ ret.err = "nil"
    /\ DOMAIN nodes = {"a", "b", "c"}
    /\ nodes["b"].Deps = <<"a">>
    /\ nodes["a"].Depends = <<>>
    /\ nodes["c"].Deps = <<"a", "b">>
    /\ edges["a"] = <<"b", "c">>

\* --------------------------------------------------------------------- C19
\* C19: GetDependents(name) returns ok and exactly the names of the tasks
\* that list name in their Depends, whatever the order in which the tasks
\* were added; for a name that was never added it returns ok = false.
C19_GetDependentsExact ==
    ret.op = "GetDependents" =>
        IF ret.arg \in DOMAIN nodes
        THEN /\ ret.ok
             /\ Range(ret.val) =
                    {t \in DOMAIN nodes : ret.arg \in Range(nodes[t].Deps)}
        ELSE ~ret.ok

\* --------------------------------------------------------------------- C20
\* C20: when goroutines have concurrently added tasks of distinct names
\* and all have returned, every call returned nil, the DAG is exactly the
\* one that the same calls made one after the other in some order leave,
\* and a Validate made then returns nil whenever the tasks are
\* dependency-closed and acyclic.
C20_ConcurrentAddsAreSequential ==
    AllReturned =>
        /\ \A g \in DOMAIN adders : adders[g].err = "nil"
        /\ \E order \in Perms(DOMAIN adders) :
            Sequential([g \in DOMAIN adders |-> adders[g].task], order).dag
                = Dag
        /\ (ret.op = "Validate" /\ DependencyClosed(nodes) /\ ~Cyclic(nodes))
            => ret.err = "nil"

\* Validate succeeded although b was inserted before the task a it
\* depends on.
C20_Witness ==
    /\ AllReturned
    /\ ret.op = "Validate"
    /\ ret.err = "nil"
    /\ nodes["b"].Deps = <<"a">>
    /\ nodes["a"].Depends = <<>>
    /\ nodes["c"].Deps = <<"b", "a">>


\* --------------------------------------------------------------------- C21
\* Every attempt of the run failed, and there was one.
AllFailed == Attempts # {} /\ \A i \in Attempts : ~(tlog[i].out = "nil")

\* C21: when Run has returned from a task with Retries = N >= 1 and every
\* attempt failed, there were exactly N attempts, each but the last followed
\* by one retry delay and then the next attempt, nothing after the last one,
\* and the error returned is "task <name> failed after N attempts:
\* <underlying>" with the error of the last attempt.
C21_FailingTaskAttemptedRetriesTimes ==
    (trun.pc = "done" /\ tsk.Retries >= 1 /\ AllFailed) =>
        /\ Cardinality(Attempts) = tsk.Retries
        /\ {tlog[i].n : i \in Attempts} = 1..tsk.Retries
        /\ Cardinality(Sleeps) = tsk.Retries - 1
        /\ \A i \in Attempts : tlog[i].n < tsk.Retries =>
                /\ i + 1 \in Sleeps
                /\ i + 2 \in Attempts
                /\ tlog[i + 2].n = tlog[i].n + 1
        /\ tlog[Len(tlog)].ev = "attempt"
        /\ trun.ret = Errorf("task failed after attempts", tsk.Name,
                             tsk.Retries, tlog[Len(tlog)].out)

\* A run of a task with Retries >= 2 returned after only failing attempts.
C21_Witness ==
    /\ trun.pc = "done"
    /\ tsk.Retries >= 2
    /\ AllFailed
    /\ trun.ret.format = "task failed after attempts"

\* --------------------------------------------------------------------- C22
\* C22: an attempt that succeeded is the last thing Run did: Run has returned
\* nil, every other attempt came before it and failed, and the number of
\* attempts is the number of that attempt (1 when the first one succeeds).
C22_NoAttemptAfterSuccess ==
    \A i \in Attempts : tlog[i].out = "nil" =>
        /\ trun.pc = "done"
        /\ trun.ret = NilError
        /\ i = Len(tlog)
        /\ \A j \in Attempts \ {i} : j < i /\ ~(tlog[j].out = "nil")
        /\ Cardinality(Attempts) = tlog[i].n

\* A run whose second attempt succeeded.
C22_Witness ==
    /\ trun.pc = "done"
    /\ \E i \in Attempts : tlog[i].out = "nil" /\ tlog[i].n = 2

\* --------------------------------------------------------------------- C23
\* The Retries the caller had set when Run was called.
GivenRetries == tlog[1].n

\* C23: once Run has filled in the defaults, a task that came with Retries
\* = 0 has Retries = 1, never makes more than one attempt and has made
\* exactly one when Run returns past PreRun; and filling in the defaults
\* again, for any task, changes nothing.
C23_ZeroRetriesIsOneAttempt ==
    ~(trun.pc = "idle") =>
        /\ GivenRetries = 0 =>
                /\ tsk.Retries = 1
                /\ Cardinality(Attempts) <= 1
                /\ (trun.pc = "done" /\ ~(tsk.PreRun = "err")) =>
                        Cardinality(Attempts) = 1
        /\ \A uuid \in UUIDs : Defaults(tsk, uuid) = tsk

\* Run returned from a task that came with Retries = 0 and no name, after
\* one attempt.
C23_Witness ==
    /\ trun.pc = "done"
    /\ GivenRetries = 0
    /\ tsk.Name \in UUIDs
    /\ Cardinality(Attempts) = 1


\* --------------------------------------------------------------------- C24
\* C24: when Run has returned from a task with PostRun set and an attempt
\* that succeeded, PostRun was called after that attempt, and if PostRun
\* returned an error Run returned "post-run hook failed for task <name>".
C24_PostRunAfterSuccess ==
    (trun.pc = "done" /\ ~(tsk.PostRun = "nil")) =>
        \A i \in Attempts : tlog[i].out = "nil" =>
            /\ \E j \in (i + 1)..Len(tlog) : tlog[j].ev = "PostRun"
            /\ tsk.PostRun = "err" =>
                    trun.ret = Errorf("post-run hook failed for task",
                                      tsk.Name, 0, "hook error")


\* --------------------------------------------------------------------- C25
\* The calls of Workflow.PostRun made so far.
PostRuns == {i \in 1..Len(wlog) : wlog[i].hook = "PostRun"}

\* C25: whenever Workflow.PostRun was called, the scheduler had returned
\* nil, every task of the workflow had completed and succeeded, and no
\* worker of the run was still executing.
C25_PostRunOnlyAfterAllSucceeded ==
    \A i \in PostRuns :
        /\ wlog[i].err = Nil
        /\ wlog[i].completed = tasks
        /\ wlog[i].succeeded = tasks
        /\ wlog[i].executing = {}

\* --------------------------------------------------------------------- C26
\* C26: once a Run whose PreRun returns an error has made its first step, it
\* has returned the "pre-run hook failed for workflow" error, and nothing
\* else has happened or happens: the DAG has no node and no edge, no
\* scheduler is constructed, so no task is dispatched and no lifecycle hook
\* fires, and the only workflow hook called is PreRun.
C26_PreRunErrorStopsEverything ==
    (wf.PreRun = "err" /\ ~(wrun.pc = "idle")) =>
        /\ wrun.pc = "done"
        /\ wrun.ret = HookError("pre-run hook failed for workflow")
        /\ nodes = <<>> /\ edges = <<>>
        /\ dpc = "unbuilt"
        /\ tasks = {}
        /\ Len(wlog) = 1 /\ wlog[1].hook = "PreRun"

\* A workflow with steps and a PostRun returned the error of its PreRun.
C26_Witness ==
    /\ wf.PreRun = "err"
    /\ ~(wf.PostRun = "nil")
    /\ Len(wf.Steps) >= 1
    /\ wf.Steps[1].Name = "a" /\ wf.Steps[1].Depends = <<>>
    /\ wrun.pc = "done"

\* --------------------------------------------------------------------- C27
\* The first step that AddTask rejects: it has no name, or the name of an
\* earlier step; 0 when there is none.
FirstRejected(steps) ==
    LET bad == {k \in 1..Len(steps) :
                    \/ steps[k].Name = ""
                    \/ \E j \in 1..(k - 1) : steps[j].Name = steps[k].Name}
    IN IF bad = {} THEN 0 ELSE CHOOSE k \in bad : \A j \in bad : k <= j

\* Some step depends on a name that is not a step.
UnknownDependency(steps) ==
    \E k \in 1..Len(steps) : \E i \in 1..Len(steps[k].Depends) :
        \A j \in 1..Len(steps) : ~(steps[j].Name = steps[k].Depends[i])

\* Some chain of steps, each depending on the next, leads from a step back
\* to itself (a step that depends on itself is the chain of one step).
StepCycle(steps) ==
    \E k \in 1..Len(steps) : \E path \in [1..k -> 1..Len(steps)] :
        /\ \A i \in 1..(k - 1) :
            \E d \in 1..Len(steps[path[i]].Depends) :
                steps[path[i]].Depends[d] = steps[path[i + 1]].Name
        /\ \E d \in 1..Len(steps[path[k]].Depends) :
                steps[path[k]].Depends[d] = steps[path[1]].Name

\* The steps cannot be built into a valid DAG.
Invalid(steps) ==
    \/ FirstRejected(steps) > 0
    \/ UnknownDependency(steps)
    \/ StepCycle(steps)

\* C27: for a workflow whose steps cannot be built into a valid DAG, and
\* whose PreRun does not fail, no scheduler is ever constructed (so no task
\* is dispatched and no lifecycle hook fires) and PostRun is not called; and
\* when Run has returned, it returned a WorkflowError: for the first step
\* without a name or with the name of an earlier step, that step's name and
\* "task must have a name" or "already exists"; otherwise StepName "DAG"
\* with "does not exist" for an unknown dependency and else "cycle".
C27_InvalidDagFailsBeforeScheduling ==
    (Invalid(wf.Steps) /\ ~(wf.PreRun = "err")) =>
        /\ dpc = "unbuilt"
        /\ tasks = {}
        /\ PostRuns = {}
        /\ wrun.pc = "done" =>
            LET k == FirstRejected(wf.Steps) IN
                wrun.ret =
                    IF k > 0
                    THEN DagError(wf.Steps[k].Name,
                                  IF wf.Steps[k].Name = ""
                                  THEN "task must have a name"
                                  ELSE "already exists")
                    ELSE IF UnknownDependency(wf.Steps)
                    THEN DagError("DAG", "dependency does not exist")
                    ELSE DagError("DAG", "cycle detected")

\* Run returned the cycle error for two steps that depend on each other.
C27_Witness ==
    /\ wrun.pc = "done"
    /\ Len(wf.Steps) = 2
    /\ wf.Steps[1] = NewTask("a", <<"b">>)
    /\ wf.Steps[2] = NewTask("b", <<"a">>)
    /\ wrun.ret = DagError("DAG", "cycle detected")

\* --------------------------------------------------------------------- C28
\* C28: when Workflow.Run has returned from a run in which a task failed, it
\* returned the scheduler's first error, the WorkflowError of the first task
\* that recorded a failure.
C28_FirstErrorIsReturned ==
    (wrun.pc = "done" /\ dpc = "returned" /\ ~(firstFailed = "")) =>
        wrun.ret = WorkflowError(firstFailed, Panicked(firstFailed))


\* --------------------------------------------------------------------- C29
\* The assertions that return an error, by position, in order.
Failing == SelectSeq([i \in 1..Len(asserts) |-> i],
                     LAMBDA i : ~asserts[i].isNil)

\* C29: the assertions are invoked in the order of task.Asserts, none
\* skipped; when RunAssertions has returned, every one of them was invoked
\* once, it returned nil exactly when every assertion returned nil, and
\* otherwise the message of the error it returned is the messages of the
\* failing assertions, in order, with "; " between each two.
C29_AllAssertionsRunAndAggregated ==
    /\ \A k \in 1..Len(invoked) : invoked[k] = k
    /\ arun.pc = "done" =>
        /\ Len(invoked) = Len(asserts)
        /\ arun.isNil <=> \A i \in 1..Len(asserts) : asserts[i].isNil
        /\ ~arun.isNil =>
            LET m == Error(arun.ret) IN
                /\ Len(m) = 2 * Len(Failing) - 1
                /\ \A j \in 1..Len(Failing) :
                        m[2 * j - 1] = asserts[Failing[j]].msg
                /\ \A j \in 1..(Len(Failing) - 1) : m[2 * j] = "; "

\* RunAssertions returned from a task whose first and last assertions fail
\* and whose second one does not.
C29_Witness ==
    /\ arun.pc = "done"
    /\ Len(asserts) = 3
    /\ ~asserts[1].isNil /\ asserts[2].isNil /\ ~asserts[3].isNil
    /\ Error(arun.ret) = <<asserts[1].msg, "; ", asserts[3].msg>>


\* --------------------------------------------------------------------- C30
\* C30: what GetBackend(name) returned is the backend of the latest
\* RegisterBackend call for the name (init()'s calls included), and nil for
\* a name no call registered; every name has in the registry the backend of
\* its latest registration; and a RegisterBackend call leaves every other
\* name as it was, registered with the same backend or not registered.
C30_GetBackendReturnsLatest ==
    /\ [](lastCall.op = "GetBackend" =>
            lastCall.backend = IF lastCall.name \in DOMAIN latest
                               THEN latest[lastCall.name] ELSE "nil")
    /\ [](\A name \in LookupNames :
            Lookup(backendRegistry, name) =
                IF name \in DOMAIN latest THEN latest[name] ELSE "nil")
    /\ [][lastCall'.op = "RegisterBackend" =>
            \A name \in (LookupNames \cup DOMAIN backendRegistry)
                            \ {lastCall'.name} :
                /\ name \in DOMAIN backendRegistry' <=>
                        name \in DOMAIN backendRegistry
                /\ name \in DOMAIN backendRegistry =>
                        backendRegistry'[name] = backendRegistry[name]]_vars

\* The built-in "bash" was overwritten, "test-fail" was registered, and
\* GetBackend("mock") returned the backend "mock" was registered with.
C30_Witness ==
    /\ lastCall = RegistryCall("GetBackend", "mock", "testBackend")
    /\ backendRegistry["bash"] = "MockBackend"
    /\ "test-fail" \in DOMAIN backendRegistry

\* --------------------------------------------------------------------- C39
\* C39: whatever Retries the task came with, when Run has returned nil an
\* attempt was made and succeeded.
C39_NilOnlyAfterSuccessfulAttempt ==
    (trun.pc = "done" /\ trun.ret = NilError) =>
        \E i \in Attempts : tlog[i].out = "nil"

\* --------------------------------------------------------------------- C31
\* The done events in a queue.
Dones(q) == Cardinality({i \in 1..Len(q) : q[i].eventType = "done"})

\* C31: the driver has left through s.doneCh or a done event only with
\* every task completed (and a completed task stays completed); a signal is
\* put in s.doneCh only by the worker that, holding s.mu, completes the last
\* task that was not completed, hence at most once in a run; and a done
\* event is queued only by the watchdog, with s.mu free for it and every
\* task completed.
C31_AllDoneExitOnlyWhenAllCompleted ==
    /\ [](exitVia \in {"doneCh", "done"} => \A t \in tasks : completed[t])
    /\ [][\A t \in tasks : completed[t] => completed'[t]]_vars
    /\ [][doneCh' > doneCh =>
            /\ doneCh = 0
            /\ \A t \in tasks : completed'[t]
            /\ \E t \in tasks : mu = t /\ ~completed[t] /\ completed'[t]]_vars
    /\ [][Dones(eventCh') > Dones(eventCh) =>
            /\ dpc = "tick"
            /\ mu = "free"
            /\ \A t \in tasks : completed[t]]_vars

\* The driver left through the watchdog's done event while the signal of the
\* last worker was in s.doneCh, in a run of several tasks.
C31_Witness ==
    /\ exitVia = "done"
    /\ doneCh = 1
    /\ Cardinality(tasks) >= 2

\* --------------------------------------------------------------------- C32
\* C32: in a run in which no failure is ever recorded, where hooks return
\* but a task body may run forever, every task whose dependencies have all
\* completed is eventually dispatched, whatever the other tasks in flight
\* do.
C32_ReadyTaskIsDispatched ==
    [](errOnce = Nil) =>
        \A t \in AllNames :
            (t \in tasks /\ \A u \in depends[t] : completed[u])
                ~> (t \in tasks /\ started[t])

\* Three tasks are inside task.Run() at the same time, none of them a
\* dependency of another, with no failure recorded.
C32_Witness ==
    /\ errOnce = Nil
    /\ Cardinality(tasks) = 3
    /\ \A t \in tasks : wpc[t] = "run" /\ depends[t] = {}

\* --------------------------------------------------------------------- C34
\* C34: on the DAG built by any sequence of AddTask calls, whatever the
\* order in which the maps are iterated, Validate returns nil exactly when
\* GetTopologicalOrder returns a nil error.
C34_ValidateAgreesWithTopologicalOrder ==
    \A order \in Perms(DOMAIN nodes) :
        \A first \in Perms({n \in DOMAIN nodes : Len(nodes[n].Deps) = 0}) :
            ValidateErr(nodes, order) = "nil"
                <=> TopologicalOrder(Dag, first).err = "nil"

\* A DAG of all the names, dependency-closed, with a cycle and a node
\* without dependencies, which Validate rejects in every iteration order.
C34_Witness ==
    /\ DOMAIN nodes = DagNames
    /\ Cyclic(nodes)
    /\ DependencyClosed(nodes)
    /\ \E n \in DOMAIN nodes : Len(nodes[n].Deps) = 0
    /\ \A order \in Perms(DOMAIN nodes) : ValidateErr(nodes, order) = "cycle detected"

\* --------------------------------------------------------------------- C35
\* The ready events for a task in a queue.
Readys(q, t) ==
    Cardinality({i \in 1..Len(q) : q[i] = ReadyEvent(t)})

\* C35: no send on s.eventCh finds the queue full: not the seeding of run(),
\* not the watchdog's done event, not the ready events a worker sends under
\* s.mu, before or after run() has returned.  A ready event for a task is
\* queued one at a time and only when its count is or becomes zero, by the
\* seeding or from a positive count, and counts never grow, so each task
\* gets at most one in a run; and the queue never holds two done events.
C35_NoSendBlocks ==
    /\ [](Len(eventCh) <= EventCap)
    /\ [](dpc = "seed" =>
            Cardinality({t \in tasks : depCount[t] = 0}) <= EventCap)
    /\ []((dpc = "tick" /\ \A t \in tasks : completed[t]) =>
            Len(eventCh) < EventCap)
    /\ [](\A t \in tasks : wpc[t] = "deps" =>
            Len(eventCh) + Cardinality(Announced(t)) <= EventCap)
    /\ [](Dones(eventCh) <= 1)
    /\ [][\A t \in tasks :
            /\ depCount'[t] <= depCount[t]
            /\ Readys(eventCh', t) > Readys(eventCh, t) =>
                /\ Readys(eventCh', t) = Readys(eventCh, t) + 1
                /\ depCount'[t] = 0
                /\ dpc = "seed" \/ depCount[t] > 0]_vars

\* After run() has returned, with nothing draining the queue, workers have
\* queued the ready events of two dependents.
C35_Witness ==
    /\ dpc = "returned"
    /\ \E t, u \in tasks :
        /\ t /= u
        /\ depends[t] /= {} /\ depends[u] /= {}
        /\ Readys(eventCh, t) = 1 /\ Readys(eventCh, u) = 1
        /\ ~started[t] /\ ~started[u]

\* --------------------------------------------------------------------- C33
\* t.Depends of the task the scheduler runs under a name: those of its step.
DeclaredDepends(t) ==
    wf.Steps[CHOOSE i \in 1..Len(wf.Steps) : wf.Steps[i].Name = t].Depends

\* The worker of a task has executed the loop that decrements the counts of
\* its dependents.
Decremented(a) == wpc[a] = "exited" /\ ~(err[a] = "none")

\* C33: for a task of the scheduler that Workflow.Run built, one that lists
\* a dependency twice included: the DAG keeps its dependencies as declared,
\* it occurs once in every topological order, it is dispatched at most once
\* and only with every dependency completed, it has been dispatched, or its
\* ready event is queued or in the driver's hands, once the workers of all
\* its dependencies have released their dependents, and it has been
\* dispatched once when run() has returned nil.
C33_DuplicateDependencyDispatchedOnce ==
    \A t \in tasks :
        /\ Dependencies(nodes, t) = [val |-> DeclaredDepends(t), ok |-> TRUE]
        /\ \A first \in Perms({n \in DOMAIN nodes : Len(nodes[n].Deps) = 0}) :
                Count(TopologicalOrder(Dag, first).order, t) = 1
        /\ dispatches[t] <= 1
        /\ started[t] => \A a \in Range(DeclaredDepends(t)) : completed[a]
        /\ (\A a \in Range(DeclaredDepends(t)) : Decremented(a)) =>
                \/ dpc = "seed"
                \/ started[t]
                \/ Readys(eventCh, t) = 1
                \/ dpc = "ready" /\ dev = t
        /\ (dpc = "returned" /\ result = [ret |-> Nil]) => dispatches[t] = 1

\* Workflow.Run has returned nil from a workflow whose second step lists the
\* first one twice.
C33_Witness ==
    /\ wf.Steps = <<NewTask("a", <<>>), NewTask("b", <<"a", "a">>)>>
    /\ wrun.pc = "done"
    /\ wrun.ret = Nil
    /\ dispatches["b"] = 1
    /\ Dependencies(nodes, "b").val = <<"a", "a">>

C37_PanicRecoveredWithoutSelfDeadlock ==
    \A t \in tasks : ~(wpc[t] = "recover" /\ mu = t)

\* ---------------------------------------------------------------------- C38
\* The goroutines that called AddTask with a task of the name n.
CallersOf(n) ==
    {g \in DOMAIN adders : adders[g].pc /= "idle" /\ adders[g].task.Name = n}

\* Those whose call got past the lookup: it inserts, or has returned nil.
WinnersOf(n) ==
    {g \in CallersOf(n) :
        \/ adders[g].pc \in {"node", "deps"}
        \/ adders[g].pc = "returned" /\ adders[g].err = "nil"}

\* C38: when several goroutines call AddTask concurrently with tasks of the
\* same name, at no time has more than one of the calls got past the lookup
\* of the name, and once all have returned exactly one has returned nil and
\* every other one the "already exists" error; the DAG then has a node for
\* exactly the names that were added, each node has the Depends of the
\* winning call, and d.edges holds, for every name k, the name n as often
\* as k occurs in the Depends of n's winner: no edge comes from a rejected
\* call.
C38_OneWinnerPerName ==
    /\ \A n \in DagNames : Cardinality(WinnersOf(n)) <= 1
    /\ AllReturned =>
        /\ DOMAIN nodes = {n \in DagNames : CallersOf(n) /= {}}
        /\ \A n \in DOMAIN nodes :
            /\ Cardinality(WinnersOf(n)) = 1
            /\ \A g \in CallersOf(n) \ WinnersOf(n) :
                    adders[g].err = "already exists"
            /\ \A g \in WinnersOf(n) :
                /\ nodes[n].Deps = adders[g].task.Depends
                /\ \A k \in DagNames :
                    Count(IF k \in DOMAIN edges THEN edges[k] ELSE <<>>, n)
                        = Count(adders[g].task.Depends, k)
        /\ \A k \in DOMAIN edges : \A i \in 1..Len(edges[k]) :
                edges[k][i] \in DOMAIN nodes

\* Every goroutine has added a task named a, each with dependencies, the
\* winner's dependencies differ from those of a rejected call, and all have
\* returned.
C38_Witness ==
    /\ AllReturned
    /\ Cardinality(DOMAIN adders) >= 3
    /\ CallersOf("a") = DOMAIN adders
    /\ \A g \in DOMAIN adders : adders[g].task.Depends /= <<>>
    /\ \E g \in WinnersOf("a") : \E h \in CallersOf("a") \ WinnersOf("a") :
            Range(adders[g].task.Depends) \cap Range(adders[h].task.Depends) = {}

====
